---- MODULE Spec2Model ----
(***************************************************************************)
(* Model of the parallel batch-fetch engine of lm_dpl.clients.restclient:  *)
(* the worker _fetch_data_batch and the coordinator RESTFetcher.fetch_data *)
(* (total count, batch planning, worker pool, initial wave, recovery wave, *)
(* failure ledger, result).                                                *)
(*                                                                         *)
(* Conventions.  An optional integer is a sequence: << >> is None and      *)
(* <<n>> is the integer n.  Durations are counted in ticks of 1/JitterRes  *)
(* seconds.  A feature is the pair <<offset, i>>: the i-th record of the   *)
(* page the service returned for the window starting at offset.            *)
(***************************************************************************)
EXTENDS Integers, Sequences, FiniteSets, Bags, TLC

\* ------------------------------------------------------------------ bounds
\* Largest feature count the service reports in the full fetch model.
MaxCount == 3
\* Largest feature count / page size of the planning model.
MaxPlanCount == 12
MaxPlanBatch == 5
\* Largest number of features the service returns for one page.
MaxFeat == 1
\* Ticks per second: the jitter takes the values 0 .. JitterRes-1 ticks.
JitterRes == 2
\* Last second of the clock.
MaxClock == 1
\* Number of retry_failed_batches calls on one ledger file.
MaxReplays == 2
\* Longest measured duration of a probe request, in seconds.
MaxElapsed == 1
\* Number of reload_config calls on one client.
MaxReloads == 1
\* Largest number of items handed to a ConcurrentFetcher.
MaxItems == 3

\* ------------------------------------------------------- program constants
max_retries == 5
base_delay == 2
max_delay == 60
DefaultCap == 4

\* ------------------------------------------------------------ input sets
None == << >>
Some(n) == << n >>

\* Feature counts the service may report (a negative one is a service fault).
Counts == (-1) .. MaxCount
\* batch_size arguments of fetch_data in the full fetch model.
BatchSizes == {-3, 0, 2}
\* max_processes argument of fetch_data, configured max_processes, cpu_count.
ArgMaxProcesses == {None, Some(0), Some(2)}
SelfMaxProcesses == {None, Some(1)}
CpuCounts == {2, 8}

\* Inputs of the planning model: every small pair and the documented example.
PlanPairs == (((-1) .. MaxPlanCount) \X ((-2) .. MaxPlanBatch)) \cup {<< 4500, 2000 >>}
PlanArgMaxProcesses == {None, Some(0), Some(1), Some(2), Some(6)}
PlanSelfMaxProcesses == {None, Some(1), Some(3), Some(6)}
PlanCpuCounts == {1, 2, 4, 8}

\* Answers to the count request (get_total_count).
CountResponses == {"transport", "http", "nonjson", "nondict", "nocount", "count"}

\* Answers to one page request (_fetch_data_batch).
FailureClasses == {"empty", "nonjson", "service_error", "transport", "http", "other"}
OkResponses == {[class |-> "ok", n |-> n, has_features |-> TRUE] : n \in 0 .. MaxFeat}
                 \cup {[class |-> "ok", n |-> 0, has_features |-> FALSE]}
Responses == {[class |-> c, n |-> 0, has_features |-> FALSE] : c \in FailureClasses}
               \cup OkResponses

\* ------------------------------------------------------ integer helpers
Min(a, b) == IF a <= b THEN a ELSE b

RECURSIVE Pow2(_)
Pow2(n) == IF n = 0 THEN 1 ELSE 2 * Pow2(n - 1)

\* Python's // on integers: the floor of a/b, for either sign of b (b # 0).
FloorDiv(a, b) ==
    IF b > 0
      THEN IF a >= 0 THEN a \div b ELSE -(((-a) + b - 1) \div b)
      ELSE IF a <= 0 THEN (-a) \div (-b) ELSE -((a + (-b) - 1) \div (-b))

\* range(n) as the sequence 0, 1, ..., n-1; empty when n <= 0.
Range(n) == [i \in 1 .. (IF n > 0 THEN n ELSE 0) |-> i - 1]

\* ---------------------------------------------------------- BatchPlanner
\* Variant: the quotient without rounding up.
NumBatchesFloor(total, size) == FloorDiv(total, size)

\* num_batches = (total_count + batch_size - 1) // batch_size, batch_size # 0.
NumBatches(total, size) == FloorDiv(total + size - 1, size)

\* Variant: the last window is shortened to the records that remain.
BatchArgsRemainder(total, size) ==
    [i \in 1 .. Len(Range(NumBatches(total, size))) |->
        [offset |-> Range(NumBatches(total, size))[i] * size,
         batch_size |-> Min(size, total - Range(NumBatches(total, size))[i] * size)]]

\* batch_args: one (offset, batch_size) per i in range(num_batches).
BatchArgs(total, size) ==
    [i \in 1 .. Len(Range(NumBatches(total, size))) |->
        [offset |-> Range(NumBatches(total, size))[i] * size, batch_size |-> size]]

\* Variant: the configured value wins over the call argument.
ResolveConfiguredFirst(arg, configured, cpu) ==
    IF configured # None THEN configured[1]
    ELSE IF arg # None THEN arg[1]
    ELSE Min(cpu, DefaultCap)

\* Worker-pool size: call argument, else configured value, else min(cpu, 4).
ResolveMaxProcesses(arg, configured, cpu) ==
    IF arg # None THEN arg[1]
    ELSE IF configured # None THEN configured[1]
    ELSE Min(cpu, DefaultCap)

\* ------------------------------------------------------------------ state
VARIABLES
    remoteCount,          \* the feature count the service holds
    batch_size,           \* fetch_data argument
    argMaxProcesses,      \* fetch_data argument max_processes (optional)
    selfMaxProcesses,     \* RESTFetcher.max_processes (optional)
    cpu_count,            \* multiprocessing.cpu_count()
    pc,                   \* position of fetch_data
    total_count,          \* result of get_total_count (optional)
    batch_args,           \* planned windows
    max_processes,        \* resolved pool size (optional)
    pools,                \* sizes of the pools opened so far, in order
    wave,                 \* the tasks of the pool that is open
    order,                \* <<wave, index>> of every task, as the tasks complete
    results,              \* outcomes of the initial wave, in window order
    retry_results,        \* outcomes of the recovery wave, in retry order
    all_features,
    failed_batches,
    successful_batches,
    retry_successful,
    persistent_failures,
    ledgers,              \* failure-ledger files written
    saved,                \* output file: "no", "ok"
    result                \* return value of fetch_data

\* State of the other operations of the client and of its environment.
VARIABLES
    now,                  \* int(time.time()): the clock, in whole seconds
    files,                \* the failure-ledger files of the working directory, by name
    runs,                 \* fetch_data runs that have reached line 310, side by side
    replay,               \* the call of retry_failed_batches
    service,              \* a service that answers each window always the same way
    history,              \* what each completed call of retry_failed_batches did
    probe,                \* the call of test_endpoints
    params,               \* the request parameters handed to every worker call
    client,               \* the LandmapperRESTClient and the objects it has built
    cli,                  \* the command-line call
    custom,               \* the call of fetch_with_custom_params
    concurrent            \* the soil ConcurrentFetcher in use

extras == << client, cli, custom, concurrent >>

outside == << now, files, runs, replay, service, history, probe, extras, params >>

vars == << remoteCount, batch_size, argMaxProcesses, selfMaxProcesses, cpu_count,
           pc, total_count, batch_args, max_processes, pools, wave, order,
           results, retry_results, all_features, failed_batches,
           successful_batches, retry_successful, persistent_failures,
           ledgers, saved, result, outside >>

inputs == << remoteCount, batch_size, argMaxProcesses, selfMaxProcesses, cpu_count >>

\* ------------------------------------------------------------ BatchWorker
\* RESTFetcher.default_params when no params are given, lines 174-179.
DefaultParams ==
    [where |-> "1=1", outFields |-> "*", returnGeometry |-> "true", f |-> "geojson"]

\* No dict.
NoParams == << >>

NoOutcome ==
    [status |-> "none", offset |-> 0, batch_size |-> 0, attempts |-> 0,
     error |-> "None", features |-> << >>]

\* A task handed to pool.imap: the call _fetch_data_batch((url, params, offset, batch_size)).
NewTask(arg) ==
    [st |-> "queued", offset |-> arg.offset, batch_size |-> arg.batch_size,
     attempt |-> 0, phase |-> "backoff", delay |-> 0, sleeps |-> 0,
     requests |-> 0, pauses |-> 0, batch_params |-> NoParams, outcome |-> NoOutcome]

\* batch_params, lines 41-47: a copy of params with the window's two members.
BatchParams(p, offset, size) ==
    [k \in DOMAIN p \cup {"resultOffset", "resultRecordCount"} |->
        IF k = "resultOffset" THEN offset
        ELSE IF k = "resultRecordCount" THEN size
        ELSE p[k]]

\* Variant: the window's members are written into the dict that was handed in.
ParamsUpdatedInPlace(p, offset, size) == BatchParams(p, offset, size)

\* The dict that was handed in, after lines 41-47: params.copy() is updated, not params.
ParamsAfterCopy(p, offset, size) == p

\* Variant: a backoff that grows linearly.
DelayLinear(attempt, jitter) ==
    Min(base_delay * (attempt + 1) * JitterRes + jitter, max_delay * JitterRes)

\* delay = min(base_delay * 2**attempt + uniform(0,1), max_delay), in ticks.
Delay(attempt, jitter) ==
    Min(base_delay * Pow2(attempt) * JitterRes + jitter, max_delay * JitterRes)

\* The features of a page of n records of the window at offset.
Features(offset, n) == [k \in 1 .. n |-> << offset, k >>]

\* Variant: an empty body is not recognised as a failure.
IsFailureExceptEmpty(r) == r.class \in (FailureClasses \ {"empty"})

\* TRUE when the answer sends the loop to `continue` or to a failed return.
IsFailure(r) == r.class \in FailureClasses

\* The error prefix of the handler that catches the failure.  A body that is
\* not JSON raises from response.json(): a ValueError, which in requests
\* >= 2.27 is also a RequestException and is then caught by the first handler.
ErrorLabels(class) ==
    CASE class = "empty" -> {"Empty response"}
      [] class = "service_error" -> {"Service error"}
      [] class = "transport" -> {"Request error"}
      [] class = "http" -> {"Request error"}
      [] class = "nonjson" -> {"JSON decode error", "Request error"}
      [] class = "other" -> {"Unexpected error"}

\* Variant: a failure is followed by another attempt whatever the attempt.
RetryAgainAlways(attempt) == TRUE

\* Variant: a failure on the last attempt of the range is retried too.
RetryAgainInclusive(attempt) == attempt <= max_retries - 1

\* TRUE when a failure on this attempt (0-based) is followed by another attempt.
RetryAgain(attempt) == attempt < max_retries - 1

\* Variant: the failed outcome counts the attempts before the last one only.
FailedOutcomeStale(w, label) ==
    [status |-> "failed", offset |-> w.offset, batch_size |-> w.batch_size,
     attempts |-> w.attempt, error |-> label, features |-> << >>]

\* Variant: the failed outcome carries no error text.
FailedOutcomeSilent(w, label) ==
    [status |-> "failed", offset |-> w.offset, batch_size |-> w.batch_size,
     attempts |-> w.attempt + 1, error |-> "None", features |-> << >>]

FailedOutcome(w, label) ==
    [status |-> "failed", offset |-> w.offset, batch_size |-> w.batch_size,
     attempts |-> w.attempt + 1, error |-> label, features |-> << >>]

\* Variant: the successful outcome counts the attempts before the last one only.
SuccessOutcomeStale(w, r) ==
    [status |-> "success", offset |-> w.offset, batch_size |-> w.batch_size,
     attempts |-> w.attempt, error |-> "None",
     features |-> IF r.has_features THEN Features(w.offset, r.n) ELSE << >>]

SuccessOutcome(w, r) ==
    [status |-> "success", offset |-> w.offset, batch_size |-> w.batch_size,
     attempts |-> w.attempt + 1, error |-> "None",
     features |-> IF r.has_features THEN Features(w.offset, r.n) ELSE << >>]

\* The call has returned: its locals are gone, its outcome stays.
Returned(w, out, paused) ==
    [w EXCEPT !.st = "done", !.attempt = 0, !.phase = "backoff", !.delay = 0,
              !.batch_params = NoParams,
              !.requests = w.requests + 1, !.pauses = IF paused THEN 1 ELSE 0,
              !.outcome = out]

\* Variant: the wave counts as complete once every task has been handed out.
AllStarted == \A i \in 1 .. Len(wave) : wave[i].st # "queued"

Running(i) == i \in 1 .. Len(wave) /\ wave[i].st = "running"
Done(i) == i \in 1 .. Len(wave) /\ wave[i].st = "done"
AllDone == \A i \in 1 .. Len(wave) : wave[i].st = "done"
PoolSize == pools[Len(pools)]

coordinator == << pc, total_count, batch_args, max_processes, pools, results,
                  retry_results, all_features, failed_batches, successful_batches,
                  retry_successful, persistent_failures, ledgers, saved, result >>

\* A free pool process takes the next task of the imap queue.
StartTask(i) ==
    /\ (pc \in {"wave1", "wave2"} \/ replay.pc = "wave")
    /\ i \in 1 .. Len(wave)
    /\ wave[i].st = "queued"
    /\ \A j \in 1 .. (i - 1) : wave[j].st # "queued"
    /\ Cardinality({j \in 1 .. Len(wave) : wave[j].st = "running"}) < PoolSize
    /\ wave' = [wave EXCEPT ![i].st = "running"]
    /\ UNCHANGED << inputs, outside, coordinator, order >>

\* Top of one loop iteration: compute the delay and sleep unless first attempt.
Backoff(i, jitter) ==
    /\ Running(i)
    /\ wave[i].phase = "backoff"
    /\ wave[i].attempt < max_retries
    /\ wave' = [wave EXCEPT ![i].batch_params =
                                BatchParams(params, wave[i].offset, wave[i].batch_size),
                            ![i].delay = Delay(wave[i].attempt, jitter),
                            ![i].sleeps = IF wave[i].attempt > 0 THEN @ + 1 ELSE @,
                            ![i].phase = "request"]
    /\ params' = ParamsAfterCopy(params, wave[i].offset, wave[i].batch_size)
    /\ UNCHANGED << inputs, now, files, runs, replay, service, history, probe, extras,
                    coordinator, order >>

\* The request of one attempt and what the loop does with the answer r.
Request(i, r) ==
    /\ Running(i)
    /\ wave[i].phase = "request"
    /\ IF IsFailure(r)
         THEN IF RetryAgain(wave[i].attempt)
                THEN /\ wave' = [wave EXCEPT ![i].attempt = @ + 1,
                                          ![i].requests = @ + 1,
                                          ![i].phase = "backoff"]
                     /\ order' = order
                ELSE \E label \in ErrorLabels(r.class) :
                     /\ wave' = [wave EXCEPT ![i] = Returned(@, FailedOutcome(@, label), FALSE)]
                     /\ order' = Append(order, << Len(pools), i >>)
         ELSE /\ wave' = [wave EXCEPT ![i] =
                             Returned(@, SuccessOutcome(@, r), SuccessOutcome(@, r).features # << >>)]
              /\ order' = Append(order, << Len(pools), i >>)
    /\ UNCHANGED << inputs, outside, coordinator >>

\* -------------------------------------------------------- FetchCoordinator
NoResult == [type |-> "pending", features |-> << >>]
NoneResult == [type |-> "None", features |-> << >>]
FeatureCollection(features) == [type |-> "FeatureCollection", features |-> features]

\* get_total_count: data.get("count", 0) of a JSON object, None on any exception.
TotalCountOf(r, remote) ==
    CASE r = "count" -> Some(remote)
      [] r = "nocount" -> Some(0)
      [] OTHER -> None

\* Variant: the merge keeps the features of the last successful outcome only.
RECURSIVE ExtendFeaturesLast(_, _)
ExtendFeaturesLast(features, outcomes) ==
    IF outcomes = << >> THEN features
    ELSE ExtendFeaturesLast(IF Head(outcomes).status = "success"
                              THEN Head(outcomes).features
                              ELSE features,
                            Tail(outcomes))

\* The loop over a wave's outcomes: all_features.extend(...) for each success.
RECURSIVE ExtendFeatures(_, _)
ExtendFeatures(features, outcomes) ==
    IF outcomes = << >> THEN features
    ELSE ExtendFeatures(IF Head(outcomes).status = "success"
                          THEN features \o Head(outcomes).features
                          ELSE features,
                        Tail(outcomes))

IsSuccess(o) == o.status = "success"
IsFailed(o) == o.status # "success"

\* Variant: the retry windows are recomputed from the position in the list.
RetryArgsByIndex(failed) ==
    [i \in 1 .. Len(failed) |->
        [offset |-> (i - 1) * failed[i].batch_size, batch_size |-> failed[i].batch_size]]

\* retry_args: the (offset, batch_size) of each failed batch.
RetryArgs(failed) ==
    [i \in 1 .. Len(failed) |->
        [offset |-> failed[i].offset, batch_size |-> failed[i].batch_size]]

\* Pool size of the recovery wave.
RetryPoolSize(maxp, nretry) == Min(maxp, nretry)

\* Variant: the ledger records the failures of the initial wave.
LedgerEntryInitial ==
    [total_batches |-> NumBatches(total_count[1], batch_size),
     successful_batches |-> successful_batches + retry_successful,
     persistent_failures |-> failed_batches,
     params |-> params]

\* Variant: the ledger counts the successes of the initial wave only.
LedgerEntryWithoutRecovered ==
    [total_batches |-> NumBatches(total_count[1], batch_size),
     successful_batches |-> successful_batches,
     persistent_failures |-> persistent_failures,
     params |-> params]

\* failure_log, lines 312-319.
LedgerEntry ==
    [total_batches |-> NumBatches(total_count[1], batch_size),
     successful_batches |-> successful_batches + retry_successful,
     persistent_failures |-> persistent_failures,
     params |-> params]

\* Variant: a fetch with unresolved failures returns the error result.
FinalResultStrict(features, failures) ==
    IF failures # << >> THEN NoneResult ELSE FeatureCollection(features)

\* complete_data, line 331: built from all_features whatever failures remain.
FinalResult(features, failures) == FeatureCollection(features)

Fail ==
    /\ pc' = "done"
    /\ result' = NoneResult

\* fetch_data, lines 219-227, with get_total_count.
GetTotalCount(r) ==
    /\ pc = "start"
    /\ total_count' = TotalCountOf(r, remoteCount)
    /\ IF total_count' = None
         THEN Fail
         ELSE pc' = "plan" /\ result' = result
    /\ UNCHANGED << inputs, outside, batch_args, max_processes, pools, wave, order, results,
                    retry_results, all_features, failed_batches, successful_batches,
                    retry_successful, persistent_failures, ledgers, saved >>

\* fetch_data, lines 229-260: plan the windows, size the pool, dispatch.
PlanBatches ==
    /\ pc = "plan"
    /\ IF batch_size = 0
         THEN \* ZeroDivisionError
              /\ Fail
              /\ UNCHANGED << batch_args, max_processes, pools, wave >>
         ELSE /\ batch_args' = BatchArgs(total_count[1], batch_size)
              /\ max_processes' =
                     Some(ResolveMaxProcesses(argMaxProcesses, selfMaxProcesses, cpu_count))
              /\ IF max_processes'[1] < 1
                   THEN \* Pool(processes < 1) raises ValueError
                        /\ Fail
                        /\ UNCHANGED << pools, wave >>
                   ELSE /\ pools' = Append(pools, max_processes'[1])
                        /\ wave' = [i \in 1 .. Len(batch_args') |-> NewTask(batch_args'[i])]
                        /\ pc' = "wave1"
                        /\ result' = result
    /\ UNCHANGED << inputs, outside, total_count, order, results, retry_results, all_features,
                    failed_batches, successful_batches, retry_successful,
                    persistent_failures, ledgers, saved >>

\* fetch_data, lines 258-296: the initial wave is complete; merge, re-dispatch.
CollectWave1 ==
    /\ pc = "wave1"
    /\ AllDone
    /\ results' = [i \in 1 .. Len(wave) |-> wave[i].outcome]
    /\ all_features' = ExtendFeatures(<< >>, results')
    /\ failed_batches' = SelectSeq(results', IsFailed)
    /\ successful_batches' = Len(SelectSeq(results', IsSuccess))
    /\ IF failed_batches' # << >>
         THEN /\ pools' = Append(pools, RetryPoolSize(max_processes[1], Len(failed_batches')))
              /\ wave' = [i \in 1 .. Len(failed_batches') |->
                             NewTask(RetryArgs(failed_batches')[i])]
              /\ pc' = "wave2"
         ELSE /\ pc' = "finish"
              /\ UNCHANGED << pools, wave >>
    /\ UNCHANGED << inputs, outside, total_count, batch_args, max_processes, order, retry_results,
                    retry_successful, persistent_failures, ledgers, saved, result >>

\* fetch_data, lines 289-308: the recovery wave is complete; merge.
CollectWave2 ==
    /\ pc = "wave2"
    /\ AllDone
    /\ retry_results' = [i \in 1 .. Len(wave) |-> wave[i].outcome]
    /\ all_features' = ExtendFeatures(all_features, retry_results')
    /\ retry_successful' = Len(SelectSeq(retry_results', IsSuccess))
    /\ persistent_failures' = SelectSeq(retry_results', IsFailed)
    /\ pc' = "finish"
    /\ UNCHANGED << inputs, outside, total_count, batch_args, max_processes, pools, wave, order,
                    results, failed_batches, successful_batches, ledgers, saved, result >>

\* fetch_data, lines 310-347: ledger, output file, return.  Writing a file may fail.
Finish(ledgerOk, output) ==
    /\ pc = "finish"
    /\ pc' = "done"
    /\ IF persistent_failures # << >> /\ ~ledgerOk
         THEN result' = NoneResult /\ UNCHANGED << ledgers, saved >>
         ELSE /\ ledgers' = IF persistent_failures # << >>
                              THEN Append(ledgers, LedgerEntry) ELSE ledgers
              /\ IF output = "fail"
                   THEN result' = NoneResult /\ saved' = saved
                   ELSE /\ result' = FinalResult(all_features, persistent_failures)
                        /\ saved' = IF output = "ok" THEN "ok" ELSE saved
    /\ UNCHANGED << inputs, outside, total_count, batch_args, max_processes, pools, wave, order,
                    results, retry_results, all_features, failed_batches,
                    successful_batches, retry_successful, persistent_failures >>

\* ------------------------------------------------- failure-ledger files
FileNames == 0 .. MaxClock

\* failed_batches_{int(time.time())}.json: the name is the second of the write.
LedgerName(t) == t

NoFiles == [n \in FileNames |-> << >>]

\* A failed outcome as the recovery wave leaves it in persistent_failures.
FailedAt(offset) ==
    [status |-> "failed", offset |-> offset, batch_size |-> 2, attempts |-> max_retries,
     error |-> "Request error", features |-> << >>]

RunFailureLists == {<< FailedAt(0) >>, << FailedAt(0), FailedAt(2) >>}
RunFeatureLists == {<< >>, << << 4, 1 >> >>}

\* A fetch_data run that has completed its waves with failures left (line 310).
NewRun(failures, features) ==
    [pc |-> "finish", persistent_failures |-> failures, all_features |-> features,
     ledger |-> None, saved |-> "no", result |-> NoResult]

\* The failure_log of run r, written at second t.
RunLedger(r, t) ==
    [timestamp |-> t, owner |-> r, persistent_failures |-> runs[r].persistent_failures]

\* fetch_data, lines 310-347, of the run r: ledger named after the current
\* second and opened with mode "w", output file, return.
FinishRun(r, ledgerOk, output) ==
    /\ r \in DOMAIN runs
    /\ runs[r].pc = "finish"
    /\ IF runs[r].persistent_failures # << >> /\ ~ledgerOk
         THEN /\ runs' = [runs EXCEPT ![r].pc = "done", ![r].result = NoneResult]
              /\ files' = files
         ELSE /\ files' = IF runs[r].persistent_failures # << >>
                            THEN [files EXCEPT ![LedgerName(now)] = << RunLedger(r, now) >>]
                            ELSE files
              /\ runs' = [runs EXCEPT
                            ![r].pc = "done",
                            ![r].ledger = IF runs[r].persistent_failures # << >>
                                            THEN Some(LedgerName(now)) ELSE None,
                            ![r].saved = IF output = "ok" THEN "ok" ELSE @,
                            ![r].result =
                                IF output = "fail" THEN NoneResult
                                ELSE FinalResult(runs[r].all_features,
                                                 runs[r].persistent_failures)]
    /\ UNCHANGED << inputs, coordinator, wave, order, now, replay, service, history, probe,
                    extras, params >>

\* A second passes.
Tick ==
    /\ now < MaxClock
    /\ now' = now + 1
    /\ UNCHANGED << inputs, coordinator, wave, order, files, runs, replay, service,
                    history, probe, extras, params >>

\* No retry_failed_batches call.
ReplayIdle ==
    [pc |-> "idle", ledger_file |-> "missing", self_url |-> "A", max_processes |-> None,
     retry_args |-> << >>, retry_results |-> << >>, recovered_features |-> << >>,
     successful_recoveries |-> 0, still_failed |-> << >>,
     result |-> NoResult]

\* No test_endpoints call.
ProbeIdle ==
    [pc |-> "idle", state |-> "None", timeout |-> 0, todo |-> << >>,
     results |-> << >>, total_endpoints |-> 0, successful |-> 0, failed |-> 0,
     report |-> << >>, raised |-> "None", sent |-> << >>]

LedgerIdle == now = 0 /\ files = NoFiles /\ runs = << >>

\* No client constructed, no command-line call, no fetch_with_custom_params call.
ClientIdle ==
    [status |-> "none", config |-> "none", states |-> << >>, attrs |-> {},
     fetchers |-> << >>,
     captured |-> 0, snapshot |-> << >>, reloads |-> 0, reload_raised |-> "None",
     reload_pc |-> "none"]
CliIdle ==
    [pc |-> "idle", entry |-> "none", argv |-> << >>, command |-> "none",
     state |-> "", layers |-> None, config_path |-> None, overwrite |-> FALSE,
     table |-> "none", calls |-> << >>, exit |-> None, raised |-> "None"]
CustomIdle ==
    [pc |-> "idle",
     args |-> [custom_params |-> << >>, batch_size |-> 2000, max_processes |-> None],
     bound |-> [epsg |-> None, batch_size |-> None, max_processes |-> None],
     raised |-> "None"]

\* No ConcurrentFetcher.
ConcurrentIdle ==
    [pc |-> "idle", items |-> << >>, batch_size |-> 1, max_workers |-> 1,
     batches |-> << >>, submitted |-> << >>, futures |-> << >>, completed |-> << >>,
     early |-> {}, yielded |-> << >>, raised |-> "None"]

ExtrasIdle ==
    /\ params = DefaultParams
    /\ client = ClientIdle
    /\ cli = CliIdle
    /\ custom = CustomIdle
    /\ concurrent = ConcurrentIdle

OutsideIdle ==
    /\ LedgerIdle
    /\ ExtrasIdle
    /\ replay = ReplayIdle
    /\ service = << >>
    /\ history = << >>
    /\ probe = ProbeIdle

\* --------------------------------------------------- retry_failed_batches
\* A ledger entry with another batch_size than the others.
FailedWide(offset) == [FailedAt(offset) EXCEPT !.batch_size = 3]

\* The failure-log file given to retry_failed_batches.
LedgerFile(state, failures) ==
    [state |-> state, service_url |-> "A", params |-> "ledger params",
     persistent_failures |-> failures]

ReplayLedgers ==
    {LedgerFile("missing", << >>), LedgerFile("invalid", << >>)}
      \cup {LedgerFile("ok", f) :
               f \in {<< >>, << FailedAt(0) >>, << FailedAt(0), FailedAt(2) >>,
                      << FailedAt(2), FailedWide(4) >>, << FailedAt(0), FailedAt(0) >>}}
ReplayMaxProcesses == {None, Some(0), Some(1), Some(2)}
FetcherUrls == {"A", "B"}

\* Variant: the replay sends the fetcher's own default parameters.
ReplayArgsOwnParams(url, ledger) ==
    [i \in 1 .. Len(ledger.persistent_failures) |->
        [url |-> url, params |-> "fetcher params",
         offset |-> ledger.persistent_failures[i].offset,
         batch_size |-> ledger.persistent_failures[i].batch_size]]

\* retry_args, lines 386-394: (self.url, failure_log["params"], offset, batch_size).
ReplayArgs(url, ledger) ==
    [i \in 1 .. Len(ledger.persistent_failures) |->
        [url |-> url, params |-> ledger.params,
         offset |-> ledger.persistent_failures[i].offset,
         batch_size |-> ledger.persistent_failures[i].batch_size]]

\* Lines 396-397: the pool size wanted by the caller.
ReplayMaxProc(arg, cpu) == IF arg # None THEN arg[1] ELSE Min(cpu, DefaultCap)

\* Lines 413-424: recovered_features.extend(...) for each success.
RECURSIVE RecoveredFeatures(_)
RecoveredFeatures(outcomes) ==
    IF outcomes = << >> THEN << >>
    ELSE (IF Head(outcomes).status = "success" THEN Head(outcomes).features ELSE << >>)
           \o RecoveredFeatures(Tail(outcomes))

\* Variant: the windows that were recovered are removed from the ledger file.
LedgerPruned(ledger, still_failed) ==
    [ledger EXCEPT !.persistent_failures = still_failed]

\* The ledger file after a replay: it was opened for reading only (line 381).
LedgerAfterReplay(ledger, still_failed) == ledger

\* What one call did: the windows dispatched and how each of them ended.
CallRecord(args, outcomes, res) ==
    [dispatched |-> [i \in 1 .. Len(args) |-> << args[i].offset, args[i].batch_size >>],
     succeeded |-> {i \in 1 .. Len(outcomes) : outcomes[i].status = "success"},
     failed |-> {i \in 1 .. Len(outcomes) : outcomes[i].status # "success"},
     result |-> res]

ReplayFail ==
    /\ replay' = [replay EXCEPT !.pc = "done", !.result = NoneResult]
    /\ history' = Append(history, CallRecord(<< >>, << >>, NoneResult))
    /\ UNCHANGED << pools, wave >>

\* retry_failed_batches, lines 379-410: load the log, build retry_args, open
\* the pool and dispatch.
ReplayStart ==
    /\ replay.pc = "start"
    /\ IF replay.ledger_file.state # "ok"
         THEN \* FileNotFoundError, json.JSONDecodeError
              ReplayFail
         ELSE LET args == ReplayArgs(replay.self_url, replay.ledger_file)
                  size == Min(ReplayMaxProc(replay.max_processes, cpu_count), Len(args))
              IN  IF size < 1
                    THEN \* Pool(processes < 1) raises ValueError
                         ReplayFail
                    ELSE /\ replay' = [replay EXCEPT !.pc = "wave", !.retry_args = args]
                         /\ pools' = << size >>
                         /\ wave' = [i \in 1 .. Len(args) |-> NewTask(args[i])]
                         /\ history' = history
    /\ UNCHANGED << inputs, pc, total_count, batch_args, max_processes, order, results,
                    retry_results, all_features, failed_batches, successful_batches,
                    retry_successful, persistent_failures, ledgers, saved, result,
                    now, files, runs, service, probe, extras, params >>

\* retry_failed_batches, lines 404-453: the pool is complete; partition the
\* outcomes, save the output file if asked, return.
ReplayCollect(output) ==
    /\ replay.pc = "wave"
    /\ AllDone
    /\ LET outcomes == [i \in 1 .. Len(wave) |-> wave[i].outcome]
           still == SelectSeq(outcomes, IsFailed)
           res == IF output = "fail" THEN NoneResult
                  ELSE FeatureCollection(RecoveredFeatures(outcomes))
       IN  /\ replay' = [replay EXCEPT
                            !.pc = "done",
                            !.retry_results = outcomes,
                            !.recovered_features = RecoveredFeatures(outcomes),
                            !.successful_recoveries = Len(SelectSeq(outcomes, IsSuccess)),
                            !.still_failed = still,
                            !.ledger_file = LedgerAfterReplay(@, still),
                            !.result = res]
           /\ history' = Append(history, CallRecord(replay.retry_args, outcomes, res))
    /\ UNCHANGED << inputs, coordinator, wave, order, now, files, runs, service, probe,
                    extras, params >>

\* The caller invokes retry_failed_batches again on the same file.
ReplayAgain ==
    /\ replay.pc = "done"
    /\ Len(history) < MaxReplays
    /\ replay' = [ReplayIdle EXCEPT !.pc = "start",
                                    !.ledger_file = replay.ledger_file,
                                    !.self_url = replay.self_url,
                                    !.max_processes = replay.max_processes]
    /\ pools' = << >>
    /\ wave' = << >>
    /\ order' = << >>
    /\ UNCHANGED << inputs, pc, total_count, batch_args, max_processes, results,
                    retry_results, all_features, failed_batches, successful_batches,
                    retry_successful, persistent_failures, ledgers, saved, result,
                    now, files, runs, service, history, probe, extras, params >>

\* ---------------------------------------------------------- test_endpoints
\* self._states: the services of each configured state, in registry order.
StateNames == << "oregon", "washington", "idaho" >>
Services(state) ==
    CASE state = "oregon" -> << "taxlots", "zoning" >>
      [] state = "washington" -> << "parcels" >>
      [] OTHER -> << >>

\* ---------------------------------------------------- LandmapperRESTClient
\* The configuration file at config_path: absent, not YAML, an empty document,
\* a service without url, or one of two well-formed registries.  "A" is the
\* registry of StateNames / Services; "B" drops washington, idaho and
\* oregon.taxlots, changes oregon.zoning and adds texas.
ConfigFiles == {"missing", "not_yaml", "empty", "no_url", "A", "B"}

ConfigStateNames(cfg) ==
    IF cfg = "A" THEN StateNames ELSE << "oregon", "texas" >>

ConfigServices(cfg, state) ==
    IF cfg = "A" THEN Services(state)
    ELSE CASE state = "oregon" -> << "zoning" >>
           [] state = "texas" -> << "parcels" >>
           [] OTHER -> << >>

\* service_info of the YAML file: url, where (optional), max_processes (optional).
ServiceInfo(cfg, state, svc) ==
    [url |-> << cfg, state, svc >>,
     where |-> IF svc = "zoning"
               THEN (IF cfg = "A" THEN Some("zone > 0") ELSE Some("zone > 1"))
               ELSE None,
     max_processes |-> IF svc = "taxlots" THEN Some(2)
                       ELSE IF svc = "zoning" /\ cfg = "B" THEN Some(1)
                       ELSE None]

\* RESTFetcher(url, params, where, max_processes) as StateService.__init__ calls it.
NewFetcher(info) ==
    LET where == IF info.where = None THEN "1=1" ELSE info.where[1]
    IN  [url |-> info.url,
         where |-> where,
         default_params |-> [DefaultParams EXCEPT !.where = where],
         max_processes |-> info.max_processes]

\* What _load_config raises, lines 558-568 ("None" when it returns).
LoadConfigRaises(file) ==
    CASE file = "missing" -> "FileNotFoundError"
      [] file = "not_yaml" -> "ValueError"
      [] OTHER -> "None"

\* What the loop over self._config.items() raises: an empty document loads as
\* None, a service without url fails in StateService.__init__ (line 485).
BuildRaises(file) ==
    CASE file = "empty" -> "AttributeError"
      [] file = "no_url" -> "KeyError"
      [] OTHER -> "None"

\* The (state, service) pairs of a configuration, in file order.
RECURSIVE ConfigEndpoints(_, _)
ConfigEndpoints(cfg, states) ==
    IF states = << >> THEN << >>
    ELSE [i \in 1 .. Len(ConfigServices(cfg, Head(states))) |->
             << Head(states), ConfigServices(cfg, Head(states))[i] >>]
           \o ConfigEndpoints(cfg, Tail(states))

\* The fetcher objects one pass over the configuration creates, in order.
BuiltFetchers(cfg) ==
    LET eps == ConfigEndpoints(cfg, ConfigStateNames(cfg))
    IN  [i \in 1 .. Len(eps) |-> NewFetcher(ServiceInfo(cfg, eps[i][1], eps[i][2]))]

\* self._states after a pass that allocated its fetchers from index base + 1:
\* per state, the services with the identity of their fetcher object.
BuiltStates(cfg, base) ==
    LET eps == ConfigEndpoints(cfg, ConfigStateNames(cfg))
        names == ConfigStateNames(cfg)
    IN  [k \in 1 .. Len(names) |->
            [state |-> names[k],
             services |-> SelectSeq([i \in 1 .. Len(eps) |->
                                        [state |-> eps[i][1], service |-> eps[i][2],
                                         fetcher |-> base + i]],
                                    LAMBDA e : e.state = names[k])]]

\* The names set as attributes of the client next to the entries of
\* self._states, lines 553-556.
StateAttributes(states) == {states[k].state : k \in 1 .. Len(states)}

\* Variant: a missing configuration file gives a client without states.
NewClientLenient(file) ==
    IF LoadConfigRaises(file) = "ValueError" \/ BuildRaises(file) # "None"
    THEN [ClientIdle EXCEPT !.status =
             IF BuildRaises(file) # "None" THEN BuildRaises(file) ELSE "ValueError"]
    ELSE IF file = "missing" THEN [ClientIdle EXCEPT !.status = "ok", !.config = file]
    ELSE [ClientIdle EXCEPT !.status = "ok", !.config = file,
                            !.states = BuiltStates(file, 0),
                            !.attrs = StateAttributes(BuiltStates(file, 0)),
                            !.fetchers = BuiltFetchers(file)]

\* LandmapperRESTClient(config_path), lines 534-556: the object the caller
\* gets, or the exception raised instead of it.
NewClient(file) ==
    IF LoadConfigRaises(file) # "None"
    THEN [ClientIdle EXCEPT !.status = LoadConfigRaises(file)]
    ELSE IF BuildRaises(file) # "None"
    THEN [ClientIdle EXCEPT !.status = BuildRaises(file)]
    ELSE [ClientIdle EXCEPT !.status = "ok", !.config = file,
                            !.states = BuiltStates(file, 0),
                            !.attrs = StateAttributes(BuiltStates(file, 0)),
                            !.fetchers = BuiltFetchers(file)]

\* The caller constructs the client.
Construct(file) ==
    /\ client.status = "none"
    /\ client' = NewClient(file)
    /\ UNCHANGED << inputs, coordinator, wave, order, now, files, runs, replay,
                    service, history, probe, cli, custom, params,
                    concurrent >>

\* The caller keeps a fetcher of the registry (client.<state>.<service>).
Capture(id) ==
    /\ client.status = "ok"
    /\ client.captured = 0
    /\ id \in 1 .. Len(client.fetchers)
    /\ client' = [client EXCEPT !.captured = id, !.snapshot = client.fetchers[id]]
    /\ UNCHANGED << inputs, coordinator, wave, order, now, files, runs, replay,
                    service, history, probe, cli, custom, params,
                    concurrent >>

\* The configuration files reload_config is run on.
ReloadFiles == ConfigFiles

\* TRUE when the configuration has the state.
HasState(cfg, state) ==
    \E k \in 1 .. Len(ConfigStateNames(cfg)) : ConfigStateNames(cfg)[k] = state

\* Variant: reload_config writes the new description into the fetcher objects
\* of the services it already has.
FetchersReloadedInPlace(c, file) ==
    [i \in 1 .. Len(c.fetchers) |->
        IF \E j \in 1 .. Len(BuiltFetchers(file)) :
               /\ BuiltFetchers(file)[j].url[2] = c.fetchers[i].url[2]
               /\ BuiltFetchers(file)[j].url[3] = c.fetchers[i].url[3]
        THEN BuiltFetchers(file)[CHOOSE j \in 1 .. Len(BuiltFetchers(file)) :
                                    /\ BuiltFetchers(file)[j].url[2] = c.fetchers[i].url[2]
                                    /\ BuiltFetchers(file)[j].url[3] = c.fetchers[i].url[3]]
        ELSE c.fetchers[i]]
      \o BuiltFetchers(file)

\* The fetcher objects after reload_config: StateService(state_config) of line
\* 781 creates new RESTFetcher objects, the old ones are left as they are.
FetchersAfterReload(c, file) == c.fetchers \o BuiltFetchers(file)

\* Variant: the states that are no longer in the file stay in the registry.
StatesAfterReloadKeepRemoved(c, file) ==
    LET new == BuiltStates(file, Len(c.fetchers))
        newOf(state) == new[CHOOSE k \in 1 .. Len(new) : new[k].state = state]
        replaced == [k \in 1 .. Len(c.states) |->
                        IF HasState(file, c.states[k].state)
                        THEN newOf(c.states[k].state) ELSE c.states[k]]
        added == SelectSeq(new, LAMBDA e :
                     \A k \in 1 .. Len(c.states) : c.states[k].state # e.state)
    IN  replaced \o added

\* self._states after lines 780-790: the states of the file are replaced or
\* added, the states that are not in the file are deleted.
StatesAfterReload(c, file) ==
    LET new == BuiltStates(file, Len(c.fetchers))
        newOf(state) == new[CHOOSE k \in 1 .. Len(new) : new[k].state = state]
        replaced == [k \in 1 .. Len(c.states) |->
                        IF HasState(file, c.states[k].state)
                        THEN newOf(c.states[k].state) ELSE c.states[k]]
        added == SelectSeq(new, LAMBDA e :
                     \A k \in 1 .. Len(c.states) : c.states[k].state # e.state)
    IN  SelectSeq(replaced \o added, LAMBDA e : HasState(file, e.state))

\* The attributes after lines 780-790: one is set per state of the file, and
\* the one of every key of self._states that is not in the file is deleted.
AttrsAfterReload(c, file) ==
    LET names == {ConfigStateNames(file)[k] : k \in 1 .. Len(ConfigStateNames(file))}
    IN  (c.attrs \cup names) \ (StateAttributes(c.states) \ names)

\* The number of states the loop of lines 780-783 has stored when it raises:
\* none for an empty document (self._config is None), the states in front of
\* the first state whose StateService(state_config) raises otherwise.
StatesStoredBeforeRaise(file) == IF file = "no_url" THEN 1 ELSE 0

\* The registry a reload_config leaves behind when the loop raises: the states
\* handled so far are replaced or added, nothing is deleted.
StatesAfterFailedReload(c, file) ==
    LET new == SubSeq(BuiltStates(file, Len(c.fetchers)), 1, StatesStoredBeforeRaise(file))
        IsNew(state) == \E k \in 1 .. Len(new) : new[k].state = state
        newOf(state) == new[CHOOSE k \in 1 .. Len(new) : new[k].state = state]
        replaced == [k \in 1 .. Len(c.states) |->
                        IF IsNew(c.states[k].state)
                        THEN newOf(c.states[k].state) ELSE c.states[k]]
        added == SelectSeq(new, LAMBDA e :
                     \A k \in 1 .. Len(c.states) : c.states[k].state # e.state)
    IN  replaced \o added

\* The fetcher objects created by the iterations that completed.
FetchersAfterFailedReload(c, file) ==
    LET stored == SubSeq(ConfigStateNames(file), 1, StatesStoredBeforeRaise(file))
    IN  c.fetchers \o SubSeq(BuiltFetchers(file), 1, Len(ConfigEndpoints(file, stored)))

\* reload_config, lines 770-790.
Reload(file) ==
    /\ client.status = "ok"
    /\ client.reloads < MaxReloads
    /\ client' =
         IF LoadConfigRaises(file) # "None"
         THEN [client EXCEPT !.reloads = @ + 1, !.reload_pc = pc,
                             !.reload_raised = LoadConfigRaises(file)]
         ELSE IF BuildRaises(file) # "None"
         THEN [client EXCEPT !.reloads = @ + 1, !.reload_pc = pc, !.config = file,
                             !.reload_raised = BuildRaises(file),
                             !.fetchers = FetchersAfterFailedReload(client, file),
                             !.states = StatesAfterFailedReload(client, file),
                             !.attrs = @ \cup StateAttributes(
                                                  StatesAfterFailedReload(client, file))]
         ELSE [client EXCEPT !.reloads = @ + 1, !.reload_pc = pc, !.config = file,
                             !.reload_raised = "None",
                             !.fetchers = FetchersAfterReload(client, file),
                             !.states = StatesAfterReload(client, file),
                             !.attrs = AttrsAfterReload(client, file)]
    /\ UNCHANGED << inputs, coordinator, wave, order, now, files, runs, replay,
                    service, history, probe, cli, custom, params,
                    concurrent >>

\* fetch_data is called on the fetcher the caller has kept.
BeginFetch ==
    /\ pc = "idle"
    /\ client.captured # 0
    /\ pc' = "start"
    /\ selfMaxProcesses' = client.fetchers[client.captured].max_processes
    /\ params' = client.fetchers[client.captured].default_params
    /\ UNCHANGED << remoteCount, batch_size, argMaxProcesses, cpu_count, total_count,
                    batch_args, max_processes, pools, wave, order, results, retry_results,
                    all_features, failed_batches, successful_batches, retry_successful,
                    persistent_failures, ledgers, saved, result, now, files, runs, replay,
                    service, history, probe, extras >>

\* The state argument: None, a configured state, or a name not configured.
ProbeStates == {"None", "oregon", "washington", "idaho", "texas"}
ProbeTimeouts == {0, 5, 30}

\* What one probe request ends with. body_timeout is a read timeout while the
\* body is downloaded: requests raises it as ConnectionError (models.py,
\* iter_content), a connect or header timeout as Timeout.  The JSON bodies of
\* an OK answer: an object with a count, with features, with neither, with an
\* error, with a count and an error, an array ("list"), and a number or null
\* ("nondict"), on which the `in` of line 671 raises TypeError.
ProbeAnswers ==
    {"count", "features", "plain", "error_payload", "count_and_error", "list",
     "nondict", "nonjson", "timeout", "body_timeout", "connection", "http", "other"}

\* The bodies on which the membership tests of line 671 evaluate.
ProbeBodies == {"count", "features", "plain", "error_payload", "count_and_error", "list"}

\* The members among "count", "features" and "error" that the body carries.
ProbeMembers(r) ==
    CASE r = "count" -> {"count"}
      [] r = "features" -> {"features"}
      [] r = "error_payload" -> {"error"}
      [] r = "count_and_error" -> {"count", "error"}
      [] OTHER -> {}

\* Lines 639-644: states_to_test, flattened to (state, service) pairs.
RECURSIVE EndpointsOf(_)
EndpointsOf(states) ==
    IF states = << >> THEN << >>
    ELSE [i \in 1 .. Len(Services(Head(states))) |->
             << Head(states), Services(Head(states))[i] >>]
           \o EndpointsOf(Tail(states))

\* Variant: a named state is probed together with every other state.
StatesToTestAll(state) == StateNames

StatesToTest(state) == IF state = "None" THEN StateNames ELSE << state >>

\* test_params, lines 654-658.
TestParams == [where |-> "1=1", returnCountOnly |-> "true", f |-> "json"]

\* service_info["url"] of an endpoint of the registry, lines 650-651.
UrlOf(c, endpoint) ==
    LET k == CHOOSE k \in 1 .. Len(c.states) : c.states[k].state = endpoint[1]
        i == CHOOSE i \in 1 .. Len(c.states[k].services) :
                 c.states[k].services[i].service = endpoint[2]
    IN  c.fetchers[c.states[k].services[i].fetcher].url

\* Variant: the loop over the services ends at the first endpoint that fails.
RemainingUnlessError(todo, entry) ==
    IF entry.status = "error" THEN << >> ELSE Tail(todo)

\* The endpoints still to probe after one iteration: every branch of the
\* try statement falls through to the next service.
Remaining(todo, entry) == Tail(todo)

\* Variant: the probe leaves its test parameters in the fetcher of the endpoint.
RegistryProbed(c, endpoint) ==
    LET k == CHOOSE k \in 1 .. Len(c.states) : c.states[k].state = endpoint[1]
        i == CHOOSE i \in 1 .. Len(c.states[k].services) :
                 c.states[k].services[i].service = endpoint[2]
    IN  [c EXCEPT !.fetchers[c.states[k].services[i].fetcher].default_params = TestParams]

\* The client after one probe: get_service_info is only read.
RegistryAfterProbe(c, endpoint) == c

\* Line 671: "count" in data or "features" in data or "error" not in data.
IsValidStructure(r) ==
    /\ r \in ProbeBodies
    /\ \/ "count" \in ProbeMembers(r)
       \/ "features" \in ProbeMembers(r)
       \/ "error" \notin ProbeMembers(r)

\* Lines 672-747: the entry stored for an endpoint.
ProbeEntry(endpoint, r, elapsed, timeout) ==
    LET entry(status, code, time, error) ==
            [state |-> endpoint[1], service |-> endpoint[2], status |-> status,
             status_code |-> code, response_time |-> time, error |-> error]
    IN  CASE IsValidStructure(r) ->
               entry("success", Some(200), Some(elapsed), "None")
          [] r \in ProbeBodies /\ ~IsValidStructure(r) ->
               entry("error", Some(200), Some(elapsed), "Invalid response structure")
          [] r = "timeout" ->
               entry("error", None, Some(timeout), "Request timeout after {timeout} seconds")
          [] r \in {"connection", "body_timeout"} ->
               entry("error", None, Some(0), "Connection failed - endpoint unreachable")
          [] r = "http" ->
               entry("error", Some(500), Some(elapsed), "HTTP Error")
          [] OTHER ->
               entry("error", None, Some(0), "Unexpected error")

\* Variant: an endpoint that cannot be reached is not counted as failed.
NextFailedReachable(failed, entry) ==
    IF entry.status = "error" /\ entry.error # "Connection failed - endpoint unreachable"
    THEN failed + 1 ELSE failed

\* failed += 1 in every branch that stores an error entry.
NextFailed(failed, entry) == IF entry.status = "error" THEN failed + 1 ELSE failed

\* successful += 1, line 679.
NextSuccessful(successful, entry) ==
    IF entry.status = "success" THEN successful + 1 ELSE successful

\* Lines 749-752, in hundredths of a percent: round(successful / total * 100, 2).
SuccessRate(successful, total) ==
    IF total > 0 THEN (2 * successful * 10000 + total) \div (2 * total) ELSE 0

\* Lines 631-644: validate the state argument and choose the states to test.
ProbeBegin ==
    /\ probe.pc = "start"
    /\ IF probe.state # "None" /\ probe.state \notin {StateNames[i] : i \in 1 .. Len(StateNames)}
         THEN probe' = [probe EXCEPT !.pc = "done", !.raised = "ValueError"]
         ELSE probe' = [probe EXCEPT !.pc = "loop",
                                     !.todo = EndpointsOf(StatesToTest(probe.state))]
    /\ UNCHANGED << inputs, coordinator, wave, order, now, files, runs, replay,
                    service, history, extras, params >>

\* Lines 649-745: one iteration of the loop over the services.
Probe(r, elapsed) ==
    /\ probe.pc = "loop"
    /\ probe.todo # << >>
    /\ LET entry == ProbeEntry(Head(probe.todo), r, elapsed, probe.timeout)
       IN  probe' = [probe EXCEPT
                        !.todo = Remaining(@, entry),
                        !.total_endpoints = @ + 1,
                        !.sent = Append(@, [url |-> UrlOf(client, Head(probe.todo)),
                                            params |-> TestParams]),
                        !.results = Append(@, entry),
                        !.successful = NextSuccessful(@, entry),
                        !.failed = NextFailed(@, entry)]
    /\ client' = RegistryAfterProbe(client, Head(probe.todo))
    /\ UNCHANGED << inputs, coordinator, wave, order, now, files, runs, replay,
                    service, history, cli, custom, params,
                    concurrent >>

\* Lines 748-768: the summary and the returned report.
ProbeReturn ==
    /\ probe.pc = "loop"
    /\ probe.todo = << >>
    /\ probe' = [probe EXCEPT
                    !.pc = "done",
                    !.report = [summary |->
                                   [total_endpoints |-> probe.total_endpoints,
                                    successful |-> probe.successful,
                                    failed |-> probe.failed,
                                    success_rate |-> SuccessRate(probe.successful,
                                                                 probe.total_endpoints)],
                                results |-> probe.results]]
    /\ UNCHANGED << inputs, coordinator, wave, order, now, files, runs, replay,
                    service, history, extras, params >>

\* ------------------------------------------------ fetch_with_custom_params
\* The arguments of fetch_with_custom_params: custom_params (a dict, possibly
\* empty), batch_size, max_processes (optional).
CustomParams == {<< >>, [where |-> "acres > 1", f |-> "geojson"]}
CustomBatchSizes == {0, 2, 3}
CustomMaxProcesses == {None, Some(1), Some(2), Some(5)}
CustomCounts == {0, 3, 7}

\* fetch_data(output_file, epsg, batch_size, max_processes) as line 366 calls
\* it, with three positional arguments (output_file, batch_size, max_processes):
\* the second lands in epsg, the third in batch_size, max_processes keeps its
\* default.
FetchDataArgs(args) ==
    [epsg |-> Some(args.batch_size),
     batch_size |-> args.max_processes,
     max_processes |-> None]

\* default_params of the temporary fetcher, line 175: params or the defaults.
TempDefaultParams(custom_params) ==
    IF custom_params = << >> THEN DefaultParams ELSE custom_params

\* params of fetch_data, lines 234-236: the copy, with outSR when epsg is truthy.
FetchParams(default_params, epsg) ==
    IF epsg # None /\ epsg[1] # 0
    THEN [k \in DOMAIN default_params \cup {"outSR"} |->
             IF k = "outSR" THEN epsg[1] ELSE default_params[k]]
    ELSE default_params

\* fetch_with_custom_params, lines 364-366, up to the first step of the
\* fetch_data call it makes.  When batch_size is bound to None, line 231 raises
\* TypeError after the count request and fetch_data returns None.
CustomCall(r) ==
    /\ custom.pc = "start"
    /\ pc = "idle"
    /\ LET bound == FetchDataArgs(custom.args)
       IN  /\ params' = FetchParams(TempDefaultParams(custom.args.custom_params), bound.epsg)
           /\ selfMaxProcesses' = None
           /\ argMaxProcesses' = bound.max_processes
           /\ IF bound.batch_size = None
                THEN /\ custom' = [custom EXCEPT !.pc = "called", !.bound = bound,
                                                 !.raised = IF TotalCountOf(r, remoteCount) # None
                                                            THEN "TypeError" ELSE "None"]
                     /\ total_count' = TotalCountOf(r, remoteCount)
                     /\ batch_size' = batch_size
                     /\ Fail
                ELSE /\ custom' = [custom EXCEPT !.pc = "called", !.bound = bound]
                     /\ batch_size' = bound.batch_size[1]
                     /\ pc' = "start"
                     /\ UNCHANGED << total_count, result >>
    /\ UNCHANGED << remoteCount, cpu_count, batch_args, max_processes, pools, wave, order,
                    results, retry_results, all_features, failed_batches,
                    successful_batches, retry_successful, persistent_failures, ledgers,
                    saved, now, files, runs, replay, service, history, probe, client, cli,
                    concurrent >>

\* ----------------------------------------------------------------- cli.py
\* The longest --layer list of a command line.
MaxLayers == 2

CliStates == {"OR", "oregon", "WA", "CA"}
CliLayers == {"soil", "elevation", "fpd", "taxlots"}
CliLayerLists ==
    UNION {[1 .. n -> CliLayers] : n \in 0 .. MaxLayers}
CliConfigPaths == {None, Some("custom.yml")}

\* str.lower() on the state names used here.
Lower(str) ==
    CASE str = "OR" -> "or"
      [] str = "WA" -> "wa"
      [] str = "CA" -> "ca"
      [] OTHER -> str

\* normalize_state, lines 54-77.
NormalizeState(state, to) ==
    LET state_lower == Lower(state) IN
    IF to = "name"
    THEN CASE state_lower = "or" -> "oregon"
           [] state_lower = "wa" -> "washington"
           [] OTHER -> state_lower
    ELSE CASE state_lower = "oregon" -> "or"
           [] state_lower = "washington" -> "wa"
           [] OTHER -> state_lower

\* x in layers.
InList(x, list) == \E i \in 1 .. Len(list) : list[i] = x

\* list.remove(x): the first occurrence only.
Remove(list, x) ==
    LET i == CHOOSE i \in 1 .. Len(list) :
                 list[i] = x /\ \A j \in 1 .. (i - 1) : list[j] # x
    IN  SubSeq(list, 1, i - 1) \o SubSeq(list, i + 1, Len(list))

\* ParcelProcessor.__init__(self, state) of parcels/processor.py called with
\* the keyword config_path: the signature has no such parameter.
ParcelProcessorInit(keywords) ==
    IF keywords \subseteq {"state"} THEN "ok" ELSE "TypeError"

\* processor.process_service(layer, overwrite=...): process_service(self,
\* service_name) has no overwrite parameter.
ProcessServiceCall(keywords) ==
    IF keywords \subseteq {"service_name"} THEN "ok" ELSE "TypeError"

\* processor.fetch(overwrite=...): ParcelProcessor has no fetch method.
FetchCall == "AttributeError"

Call(fn, args, outcome) == [fn |-> fn, args |-> args, outcome |-> outcome]

\* The layer loop of lines 125-132: the calls made and the exit code.
RECURSIVE LayerLoop(_, _, _)
LayerLoop(layers, overwrite, calls) ==
    IF layers = << >> THEN [calls |-> calls, exit |-> 0]
    ELSE LET outcome == ProcessServiceCall({"overwrite"})
             made == Append(calls, Call("process_service", << Head(layers), overwrite >>,
                                        outcome))
         IN  IF outcome # "ok" THEN [calls |-> made, exit |-> 1]
             ELSE LayerLoop(Tail(layers), overwrite, made)

\* Lines 121-137: the parcel path.
ParcelPath(normalized, layers, config_path, overwrite, calls) ==
    LET built == ParcelProcessorInit({"config_path"})
        made == Append(calls, Call("ParcelProcessor", << normalized, config_path >>, built))
    IN  IF built # "ok" THEN [calls |-> made, exit |-> 1]
        ELSE IF layers # << >> THEN LayerLoop(layers, overwrite, made)
             ELSE [calls |-> Append(made, Call("fetch", << overwrite >>, FetchCall)),
                   exit |-> 1]

\* run_fetch, lines 98-141.  soil and elevation say whether soil_main and
\* elevation_main return ("ok") or raise.
RunFetch(state, layers, config_path, overwrite, soil, elevation) ==
    LET normalized == NormalizeState(state, "name")
        given == IF layers = None THEN << >> ELSE layers[1]
        soilCalls == IF InList("soil", given)
                     THEN << Call("soil_main",
                                  << NormalizeState(state, "abbr"), config_path >>, soil) >>
                     ELSE << >>
        afterSoil == IF InList("soil", given) THEN Remove(given, "soil") ELSE given
        elevCalls == IF InList("elevation", afterSoil)
                     THEN Append(soilCalls, Call("elevation_main", << normalized >>, elevation))
                     ELSE soilCalls
        afterElev == IF InList("elevation", afterSoil)
                     THEN Remove(afterSoil, "elevation") ELSE afterSoil
    IN  IF InList("soil", given) /\ soil # "ok"
        THEN [calls |-> soilCalls, exit |-> 1]
        ELSE IF InList("elevation", afterSoil) /\ elevation # "ok"
        THEN [calls |-> elevCalls, exit |-> 1]
        ELSE IF given # << >> /\ afterElev = << >>
        THEN [calls |-> elevCalls, exit |-> 0]
        ELSE ParcelPath(normalized, afterElev, config_path, overwrite, elevCalls)

\* A direct call run_fetch(state, layers, config_path, overwrite).
RunFetchCall(soil, elevation) ==
    /\ cli.pc = "start"
    /\ cli.entry = "run_fetch"
    /\ LET ran == RunFetch(cli.state, cli.layers, cli.config_path, cli.overwrite,
                           soil, elevation)
       IN  cli' = [cli EXCEPT !.pc = "done", !.calls = ran.calls, !.exit = Some(ran.exit)]
    /\ UNCHANGED << inputs, coordinator, wave, order, now, files, runs, replay,
                    service, history, probe, client, custom, params,
                    concurrent >>

\* The command line of a fetch command: the state before or after the options,
\* the layers with the long or the short flag.
RECURSIVE LayerOptions(_, _)
LayerOptions(layers, flag) ==
    IF layers = << >> THEN << >>
    ELSE << flag, Head(layers) >> \o LayerOptions(Tail(layers), flag)

FetchArgv(state, layers, config_path, overwrite, flag, stateFirst) ==
    LET options == (IF layers = None THEN << >> ELSE LayerOptions(layers[1], flag))
                     \o (IF config_path = None THEN << >>
                         ELSE << "--config", config_path[1] >>)
                     \o (IF overwrite THEN << "--overwrite" >> ELSE << >>)
    IN  << "fetch" >> \o (IF stateFirst THEN << state >> \o options
                          ELSE options \o << state >>)

ProcessArgv(table, state) == << "process", "--table", table, "--state", state >>

\* Variant: a layer flag puts its value in front of the values already read.
PrependLayer(layer, value) ==
    IF layer = None THEN Some(<< value >>) ELSE Some(<< value >> \o layer[1])

\* action="append", line 302: None until the first flag, then a list in order.
AppendLayer(layer, value) ==
    IF layer = None THEN Some(<< value >>) ELSE Some(Append(layer[1], value))

\* parser.parse_args() on the tokens after "fetch", lines 295-314.
RECURSIVE ParseFetch(_, _)
ParseFetch(tokens, ns) ==
    IF tokens = << >> THEN ns
    ELSE IF Head(tokens) \in {"--layer", "-l"}
    THEN ParseFetch(Tail(Tail(tokens)), [ns EXCEPT !.layer = AppendLayer(@, tokens[2])])
    ELSE IF Head(tokens) = "--config"
    THEN ParseFetch(Tail(Tail(tokens)), [ns EXCEPT !.config = Some(tokens[2])])
    ELSE IF Head(tokens) \in {"--overwrite", "-o"}
    THEN ParseFetch(Tail(tokens), [ns EXCEPT !.overwrite = TRUE])
    ELSE ParseFetch(Tail(tokens), [ns EXCEPT !.state = Head(tokens)])

\* parser.parse_args() on the tokens after "process", lines 317-330.
RECURSIVE ParseProcess(_, _)
ParseProcess(tokens, ns) ==
    IF tokens = << >> THEN ns
    ELSE IF Head(tokens) = "--table"
    THEN ParseProcess(Tail(Tail(tokens)), [ns EXCEPT !.table = tokens[2]])
    ELSE ParseProcess(Tail(Tail(tokens)), [ns EXCEPT !.state = tokens[2]])

EmptyNamespace ==
    [state |-> "", layer |-> None, config |-> None, overwrite |-> FALSE, table |-> "none"]

\* return run_fetch(...) / return run_process(...), lines 376 and 380.
MainExit(code) == code

\* main, lines 366-394, for the fetch and the process command.  code is what
\* run_process returns.
Main(soil, elevation, code) ==
    /\ cli.pc = "start"
    /\ cli.entry = "main"
    /\ IF cli.argv[1] = "fetch"
         THEN LET ns == ParseFetch(Tail(cli.argv), EmptyNamespace)
                  ran == RunFetch(ns.state, ns.layer, ns.config, ns.overwrite, soil, elevation)
              IN  cli' = [cli EXCEPT
                            !.pc = "done",
                            !.calls = << Call("run_fetch",
                                              << ns.state, ns.layer, ns.config, ns.overwrite >>,
                                              ran.exit) >>,
                            !.exit = Some(MainExit(ran.exit))]
         ELSE LET ns == ParseProcess(Tail(cli.argv), EmptyNamespace)
              IN  cli' = [cli EXCEPT
                            !.pc = "done",
                            !.calls = << Call("run_process", << ns.table, ns.state >>, code) >>,
                            !.exit = Some(MainExit(code))]
    /\ UNCHANGED << inputs, coordinator, wave, order, now, files, runs, replay,
                    service, history, probe, client, custom, params,
                    concurrent >>

\* ------------------------------------------- soil/processor.py: ConcurrentFetcher
\* The arguments of ConcurrentFetcher: items, batch_size, max_workers.
FetcherItems == {[i \in 1 .. n |-> i] : n \in 0 .. MaxItems}
FetcherBatchSizes == {-1, 0, 1, 2}
FetcherMaxWorkers == {0, 1, 2}

\* Variant: only the batches that are full are kept.
BatchesFullOnly(items, size) ==
    IF size < 0 THEN << >>
    ELSE [k \in 1 .. FloorDiv(Len(items), size) |->
             SubSeq(items, (k - 1) * size + 1, k * size)]

\* self.batches, lines 42-45: items[i : i + batch_size] for i in
\* range(0, len(items), batch_size), batch_size # 0.  The range is empty for a
\* negative step.
Batches(items, size) ==
    IF size < 0 THEN << >>
    ELSE [k \in 1 .. FloorDiv(Len(items) + size - 1, size) |->
             SubSeq(items, (k - 1) * size + 1, Min(k * size, Len(items)))]

\* What __enter__ raises, lines 41-51: range() with step 0, or
\* ThreadPoolExecutor(max_workers < 1); "None" when it returns.
EnterRaises(size, workers) ==
    IF size = 0 \/ workers < 1 THEN "ValueError" ELSE "None"

\* What func_to_exec(q, batch) returns for a batch.
BatchResult(batch) == << "rows", batch >>

\* A future of the executor, as submit returns it.
NewFuture == [st |-> "pending", raised |-> FALSE, result |-> None]

\* Lines 60-64: the value the iterator yields for a completed future.
YieldValue(future) == IF future.raised THEN None ELSE Some(future.result)

\* The batches the iterator has yielded a value for.
YieldedBatches(c) == {c.yielded[n].batch : n \in 1 .. Len(c.yielded)}

\* executor.shutdown(wait=True), line 54: returns when every submitted call
\* has completed.
ShutdownReturns(futures) == \A k \in 1 .. Len(futures) : futures[k].st = "done"

\* __enter__, lines 41-51.
Enter ==
    /\ concurrent.pc = "new"
    /\ concurrent' =
         IF concurrent.batch_size = 0
         THEN [concurrent EXCEPT !.pc = "raised",
                                 !.raised = EnterRaises(concurrent.batch_size,
                                                        concurrent.max_workers)]
         ELSE LET batches == Batches(concurrent.items, concurrent.batch_size)
              IN  IF EnterRaises(concurrent.batch_size, concurrent.max_workers) # "None"
                  THEN [concurrent EXCEPT !.pc = "raised", !.batches = batches,
                                          !.raised = EnterRaises(concurrent.batch_size,
                                                                 concurrent.max_workers)]
                  ELSE [concurrent EXCEPT
                           !.pc = "entered",
                           !.batches = batches,
                           !.submitted = [k \in 1 .. Len(batches) |-> k],
                           !.futures = [k \in 1 .. Len(batches) |-> NewFuture]]
    /\ UNCHANGED << inputs, coordinator, wave, order, now, files, runs, replay,
                    service, history, probe, client, cli, custom, params >>

\* A free thread of the executor takes the next submitted call.
RunBatch(k) ==
    /\ concurrent.pc \in {"entered", "iterating"}
    /\ k \in 1 .. Len(concurrent.futures)
    /\ concurrent.futures[k].st = "pending"
    /\ \A j \in 1 .. (k - 1) : concurrent.futures[j].st # "pending"
    /\ Cardinality({j \in 1 .. Len(concurrent.futures) :
                       concurrent.futures[j].st = "running"}) < concurrent.max_workers
    /\ concurrent' = [concurrent EXCEPT !.futures[k].st = "running"]
    /\ UNCHANGED << inputs, coordinator, wave, order, now, files, runs, replay,
                    service, history, probe, client, cli, custom, params >>

\* func_to_exec(q, batch) returns or raises: the future completes.
FinishBatch(k, ok) ==
    /\ concurrent.pc \in {"entered", "iterating"}
    /\ k \in 1 .. Len(concurrent.futures)
    /\ concurrent.futures[k].st = "running"
    /\ concurrent' = [concurrent EXCEPT
                         !.futures[k] =
                             [st |-> "done", raised |-> ~ok,
                              result |-> IF ok THEN BatchResult(concurrent.batches[k])
                                         ELSE None],
                         !.completed = Append(@, k)]
    /\ UNCHANGED << inputs, coordinator, wave, order, now, files, runs, replay,
                    service, history, probe, client, cli, custom, params >>

\* __iter__, line 57: as_completed(self.future_to_batch) starts and sets the
\* futures that are complete already aside.
IterStart ==
    /\ concurrent.pc = "entered"
    /\ concurrent' = [concurrent EXCEPT
                         !.pc = "iterating",
                         !.early = {k \in 1 .. Len(concurrent.futures) :
                                       concurrent.futures[k].st = "done"}]
    /\ UNCHANGED << inputs, coordinator, wave, order, now, files, runs, replay,
                    service, history, probe, client, cli, custom, params >>

\* Lines 57-64: the iterator yields for the next future of as_completed: one
\* of those set aside at the start (a set, in no particular order), then the
\* others as they complete.
YieldNext(k) ==
    /\ concurrent.pc = "iterating"
    /\ k \in 1 .. Len(concurrent.futures)
    /\ k \notin YieldedBatches(concurrent)
    /\ concurrent.futures[k].st = "done"
    /\ IF concurrent.early \ YieldedBatches(concurrent) # {}
         THEN k \in concurrent.early
         ELSE \A n \in 1 .. Len(concurrent.completed) :
                  (/\ concurrent.completed[n] # k
                   /\ concurrent.completed[n] \notin YieldedBatches(concurrent)) =>
                      \E m \in 1 .. (n - 1) : concurrent.completed[m] = k
    /\ concurrent' = [concurrent EXCEPT
                         !.yielded = Append(@, [batch |-> k,
                                                value |-> YieldValue(concurrent.futures[k])])]
    /\ UNCHANGED << inputs, coordinator, wave, order, now, files, runs, replay,
                    service, history, probe, client, cli, custom, params >>

\* __exit__, lines 52-54, when the with block is left.
Exit ==
    /\ concurrent.pc \in {"entered", "iterating"}
    /\ ShutdownReturns(concurrent.futures)
    /\ concurrent' = [concurrent EXCEPT !.pc = "exited"]
    /\ UNCHANGED << inputs, coordinator, wave, order, now, files, runs, replay,
                    service, history, probe, client, cli, custom, params >>

\* ---------------------------------------------------------- specifications
NoLocals ==
    /\ total_count = None
    /\ batch_args = << >>
    /\ max_processes = None
    /\ pools = << >>
    /\ wave = << >>
    /\ order = << >>
    /\ results = << >>
    /\ retry_results = << >>
    /\ all_features = << >>
    /\ failed_batches = << >>
    /\ successful_batches = 0
    /\ retry_successful = 0
    /\ persistent_failures = << >>
    /\ ledgers = << >>
    /\ saved = "no"
    /\ result = NoResult

Start == pc = "start" /\ NoLocals

\* No fetch_data call of the modelled fetcher is in progress.
FetchIdle ==
    /\ remoteCount = 0
    /\ batch_size = 2
    /\ argMaxProcesses = None
    /\ selfMaxProcesses = None
    /\ cpu_count = 2
    /\ pc = "idle"
    /\ NoLocals

\* One call of fetch_data on a fetcher, against a service.
Init ==
    /\ remoteCount \in Counts
    /\ batch_size \in BatchSizes
    /\ argMaxProcesses \in ArgMaxProcesses
    /\ selfMaxProcesses \in SelfMaxProcesses
    /\ cpu_count \in CpuCounts
    /\ Start
    /\ OutsideIdle

Next ==
    \/ \E r \in CountResponses : GetTotalCount(r)
    \/ PlanBatches
    \/ \E i \in 1 .. Len(wave) : StartTask(i)
    \/ \E i \in 1 .. Len(wave), jitter \in 0 .. (JitterRes - 1) : Backoff(i, jitter)
    \/ \E i \in 1 .. Len(wave), r \in Responses : Request(i, r)
    \/ CollectWave1
    \/ CollectWave2
    \/ \E ledgerOk \in BOOLEAN, output \in {"none", "ok", "fail"} : Finish(ledgerOk, output)

Spec == Init /\ [][Next]_vars

\* One call of fetch_data that is scheduled fairly: the coordinator goes on
\* when it can, the pool hands a queued task to a free process, a sleep ends,
\* and every request returns or times out.
InitLive ==
    /\ remoteCount \in {0, MaxCount}
    /\ batch_size \in BatchSizes
    /\ argMaxProcesses = None
    /\ selfMaxProcesses \in SelfMaxProcesses
    /\ cpu_count = 2
    /\ Start
    /\ OutsideIdle

CoordinatorStep ==
    \/ \E r \in CountResponses : GetTotalCount(r)
    \/ PlanBatches
    \/ CollectWave1
    \/ CollectWave2
    \/ \E ledgerOk \in BOOLEAN, output \in {"none", "ok", "fail"} : Finish(ledgerOk, output)

\* The answers as the retry loop tells them apart: a page, a failure found in
\* the body (line 61), a failure raised as an exception (line 103).
LiveResponses == {r \in Responses : r.class \in {"ok", "empty", "transport"}}

WorkerStep(i) ==
    \/ StartTask(i)
    \/ \E jitter \in 0 .. (JitterRes - 1) : Backoff(i, jitter)
    \/ \E r \in LiveResponses : Request(i, r)

\* Some pool process that can take a step takes one.
PoolStep == \E i \in 1 .. Len(wave) : WorkerStep(i)

Fairness ==
    /\ WF_vars(CoordinatorStep)
    /\ WF_vars(PoolStep)

NextLive == CoordinatorStep \/ PoolStep

SpecLive == InitLive /\ [][NextLive]_vars /\ Fairness

\* The planning part of fetch_data alone, over a wide range of arguments.
InitPlan ==
    /\ \E pair \in PlanPairs : remoteCount = pair[1] /\ batch_size = pair[2]
    /\ argMaxProcesses \in PlanArgMaxProcesses
    /\ selfMaxProcesses \in PlanSelfMaxProcesses
    /\ cpu_count \in PlanCpuCounts
    /\ Start
    /\ OutsideIdle

NextPlan ==
    \/ \E r \in CountResponses : GetTotalCount(r)
    \/ PlanBatches

SpecPlan == InitPlan /\ [][NextPlan]_vars

\* One direct call _fetch_data_batch((url, params, offset, batch_size)).
WorkerOffsets == {0, 2, 4000}
WorkerBatchSizes == {-3, 2, 2000}

InitWorker ==
    /\ remoteCount = 0
    /\ batch_size \in WorkerBatchSizes
    /\ argMaxProcesses = None
    /\ selfMaxProcesses = None
    /\ cpu_count = 2
    /\ pc = "worker"
    /\ total_count = None
    /\ batch_args = << >>
    /\ max_processes = None
    /\ pools = << 1 >>
    /\ \E offset \in WorkerOffsets :
           wave = << [NewTask([offset |-> offset, batch_size |-> batch_size])
                         EXCEPT !.st = "running"] >>
    /\ order = << >>
    /\ results = << >>
    /\ retry_results = << >>
    /\ all_features = << >>
    /\ failed_batches = << >>
    /\ successful_batches = 0
    /\ retry_successful = 0
    /\ persistent_failures = << >>
    /\ ledgers = << >>
    /\ saved = "no"
    /\ result = NoResult
    /\ OutsideIdle

NextWorker ==
    \/ \E i \in 1 .. Len(wave), jitter \in 0 .. (JitterRes - 1) : Backoff(i, jitter)
    \/ \E i \in 1 .. Len(wave), r \in Responses : Request(i, r)

SpecWorker == InitWorker /\ [][NextWorker]_vars

\* Two fetch_data runs in one working directory, both past their recovery wave
\* with failures left.
InitLedger ==
    /\ FetchIdle
    /\ now = 0
    /\ files = NoFiles
    /\ runs \in [{1, 2} -> {NewRun(f, a) : f \in RunFailureLists, a \in RunFeatureLists}]
    /\ replay = ReplayIdle
    /\ service = << >>
    /\ history = << >>
    /\ probe = ProbeIdle
    /\ ExtrasIdle

NextLedger ==
    \/ \E r \in DOMAIN runs, ledgerOk \in BOOLEAN, output \in {"none", "ok", "fail"} :
           FinishRun(r, ledgerOk, output)
    \/ Tick

SpecLedger == InitLedger /\ [][NextLedger]_vars

\* One call of retry_failed_batches on a failure-log file.
InitReplay ==
    /\ remoteCount = 0
    /\ batch_size = 2
    /\ argMaxProcesses = None
    /\ selfMaxProcesses = None
    /\ cpu_count \in CpuCounts
    /\ pc = "idle"
    /\ NoLocals
    /\ LedgerIdle
    /\ \E ledger \in ReplayLedgers, url \in FetcherUrls, maxp \in ReplayMaxProcesses :
           replay = [ReplayIdle EXCEPT !.pc = "start", !.ledger_file = ledger,
                                      !.self_url = url, !.max_processes = maxp]
    /\ service = << >>
    /\ history = << >>
    /\ probe = ProbeIdle
    /\ ExtrasIdle

NextReplay ==
    \/ ReplayStart
    \/ \E i \in 1 .. Len(wave) : StartTask(i)
    \/ \E i \in 1 .. Len(wave), jitter \in 0 .. (JitterRes - 1) : Backoff(i, jitter)
    \/ \E i \in 1 .. Len(wave), r \in Responses : Request(i, r)
    \/ \E output \in {"none", "ok", "fail"} : ReplayCollect(output)

SpecReplay == InitReplay /\ [][NextReplay]_vars

\* Calls of retry_failed_batches, one after the other, on the same file and
\* against a service that answers a window the same way at every request.
ServiceResponses ==
    {r \in Responses : r.class \in {"transport", "service_error", "ok"}}
TwiceLedgers ==
    {LedgerFile("missing", << >>)}
      \cup {LedgerFile("ok", f) :
               f \in {<< >>, << FailedAt(0) >>, << FailedAt(0), FailedAt(2) >>,
                      << FailedAt(2), FailedAt(0) >>}}

InitReplayTwice ==
    /\ FetchIdle
    /\ LedgerIdle
    /\ \E ledger \in TwiceLedgers, maxp \in {None, Some(1)} :
           replay = [ReplayIdle EXCEPT !.pc = "start", !.ledger_file = ledger,
                                      !.max_processes = maxp]
    /\ service \in [{0, 2} -> ServiceResponses]
    /\ history = << >>
    /\ probe = ProbeIdle
    /\ ExtrasIdle

NextReplayTwice ==
    \/ ReplayStart
    \/ \E i \in 1 .. Len(wave) : StartTask(i)
    \/ \E i \in 1 .. Len(wave), jitter \in 0 .. (JitterRes - 1) : Backoff(i, jitter)
    \/ \E i \in 1 .. Len(wave) : Request(i, service[wave[i].offset])
    \/ \E output \in {"none", "ok", "fail"} : ReplayCollect(output)
    \/ ReplayAgain

SpecReplayTwice == InitReplayTwice /\ [][NextReplayTwice]_vars

\* One call of test_endpoints.
InitProbe ==
    /\ FetchIdle
    /\ LedgerIdle
    /\ replay = ReplayIdle
    /\ service = << >>
    /\ history = << >>
    /\ \E state \in ProbeStates, timeout \in ProbeTimeouts :
           probe = [ProbeIdle EXCEPT !.pc = "start", !.state = state,
                                    !.timeout = timeout]
    /\ params = DefaultParams
    /\ client = NewClient("A")
    /\ cli = CliIdle
    /\ custom = CustomIdle
    /\ concurrent = ConcurrentIdle

NextProbe ==
    \/ ProbeBegin
    \/ \E r \in ProbeAnswers, elapsed \in 0 .. MaxElapsed : Probe(r, elapsed)
    \/ ProbeReturn

SpecProbe == InitProbe /\ [][NextProbe]_vars

\* A client is constructed, one of its fetchers is kept and used for a fetch,
\* and reload_config runs at any point.
InitClient ==
    /\ remoteCount = 1
    /\ batch_size = 2
    /\ argMaxProcesses = None
    /\ selfMaxProcesses = None
    /\ cpu_count = 2
    /\ pc = "idle"
    /\ NoLocals
    /\ OutsideIdle

NextClient ==
    \/ \E file \in ConfigFiles : Construct(file)
    \/ \E id \in 1 .. Len(client.fetchers) : Capture(id)
    \/ \E file \in ReloadFiles : Reload(file)
    \/ BeginFetch
    \/ Next

SpecClient == InitClient /\ [][NextClient]_vars

\* One call of fetch_with_custom_params, up to the dispatch of the windows.
InitCustom ==
    /\ remoteCount \in CustomCounts
    /\ batch_size = 2000
    /\ argMaxProcesses = None
    /\ selfMaxProcesses = None
    /\ cpu_count \in CpuCounts
    /\ pc = "idle"
    /\ NoLocals
    /\ LedgerIdle
    /\ replay = ReplayIdle
    /\ service = << >>
    /\ history = << >>
    /\ probe = ProbeIdle
    /\ params = DefaultParams
    /\ client = ClientIdle
    /\ cli = CliIdle
    /\ concurrent = ConcurrentIdle
    /\ \E cp \in CustomParams, size \in CustomBatchSizes, maxp \in CustomMaxProcesses :
           custom = [CustomIdle EXCEPT
                        !.pc = "start",
                        !.args = [custom_params |-> cp, batch_size |-> size,
                                  max_processes |-> maxp]]

NextCustom ==
    \/ \E r \in CountResponses : CustomCall(r)
    \/ \E r \in CountResponses : GetTotalCount(r)
    \/ PlanBatches

SpecCustom == InitCustom /\ [][NextCustom]_vars

\* One call of run_fetch, or one run of main on a command line.
InitCli ==
    /\ FetchIdle
    /\ LedgerIdle
    /\ replay = ReplayIdle
    /\ service = << >>
    /\ history = << >>
    /\ probe = ProbeIdle
    /\ params = DefaultParams
    /\ client = ClientIdle
    /\ custom = CustomIdle
    /\ concurrent = ConcurrentIdle
    /\ \/ \E state \in CliStates, layers \in {None} \cup {Some(l) : l \in CliLayerLists},
             config_path \in CliConfigPaths, overwrite \in BOOLEAN :
              cli = [CliIdle EXCEPT !.pc = "start", !.entry = "run_fetch",
                                    !.state = state, !.layers = layers,
                                    !.config_path = config_path, !.overwrite = overwrite]
       \/ \E state \in CliStates,
             layers \in {None} \cup {Some(l) : l \in CliLayerLists \ {<< >>}},
             config_path \in CliConfigPaths, overwrite \in BOOLEAN,
             flag \in {"--layer", "-l"}, stateFirst \in BOOLEAN :
              cli = [CliIdle EXCEPT !.pc = "start", !.entry = "main",
                                    !.command = "fetch",
                                    !.argv = FetchArgv(state, layers, config_path, overwrite,
                                                       flag, stateFirst),
                                    !.state = state, !.layers = layers,
                                    !.config_path = config_path, !.overwrite = overwrite]
       \/ \E state \in CliStates, table \in {"taxlots", "soil"} :
              cli = [CliIdle EXCEPT !.pc = "start", !.entry = "main",
                                    !.command = "process",
                                    !.argv = ProcessArgv(table, state),
                                    !.state = state, !.table = table]

NextCli ==
    \/ \E soil \in {"ok", "raise"}, elevation \in {"ok", "raise"} :
           RunFetchCall(soil, elevation)
    \/ \E soil \in {"ok", "raise"}, elevation \in {"ok", "raise"}, code \in {0, 1} :
           Main(soil, elevation, code)

SpecCli == InitCli /\ [][NextCli]_vars

\* One ConcurrentFetcher used in a with statement.
InitFetcher ==
    /\ FetchIdle
    /\ LedgerIdle
    /\ replay = ReplayIdle
    /\ service = << >>
    /\ history = << >>
    /\ probe = ProbeIdle
    /\ params = DefaultParams
    /\ client = ClientIdle
    /\ cli = CliIdle
    /\ custom = CustomIdle
    /\ \E items \in FetcherItems, size \in FetcherBatchSizes, workers \in FetcherMaxWorkers :
           concurrent = [ConcurrentIdle EXCEPT !.pc = "new", !.items = items,
                                              !.batch_size = size,
                                              !.max_workers = workers]

NextFetcher ==
    \/ Enter
    \/ \E k \in 1 .. Len(concurrent.futures) : RunBatch(k)
    \/ \E k \in 1 .. Len(concurrent.futures), ok \in BOOLEAN : FinishBatch(k, ok)
    \/ IterStart
    \/ \E k \in 1 .. Len(concurrent.futures) : YieldNext(k)
    \/ Exit

SpecFetcher == InitFetcher /\ [][NextFetcher]_vars

\* ------------------------------------------------------------ properties
\* The windows have been planned (lines 231-242 have run without an exception).
Planned == total_count # None /\ batch_size # 0 /\ pc \notin {"start", "plan"}

\* The window i of the plan holds the record number x.
Holds(i, x) ==
    batch_args[i].offset <= x /\ x < batch_args[i].offset + batch_args[i].batch_size

\* C1: for totalCount >= 0 and pageSize > 0 the plan has exactly
\* ceil(totalCount/pageSize) windows, at offsets 0, pageSize, 2*pageSize, ...,
\* and every record number of [0, totalCount) lies in exactly one window
\* (no windows when totalCount = 0).
C1_PlanCoversCount ==
    (Planned /\ total_count[1] >= 0 /\ batch_size > 0) =>
        LET n == Len(batch_args) IN
        /\ n * batch_size >= total_count[1]
        /\ (n - 1) * batch_size < total_count[1]
        /\ (total_count[1] = 0 => n = 0)
        /\ \A i \in 1 .. n : batch_args[i].offset = (i - 1) * batch_size
        /\ \A x \in 0 .. (total_count[1] - 1) :
               Cardinality({i \in 1 .. n : Holds(i, x)}) = 1

C1_Witness ==
    /\ pc = "wave1"
    /\ total_count = Some(7)
    /\ batch_size = 3
    /\ Len(batch_args) = 3
    /\ batch_args[3].offset = 6

\* C2: every planned window, the last one included, declares size = pageSize,
\* and so does the task dispatched for it; totalCount = 4500 with pageSize =
\* 2000 plans (0,2000), (2000,2000), (4000,2000) in that order.
C2_WindowSizeIsPageSize ==
    Planned =>
        /\ \A i \in 1 .. Len(batch_args) : batch_args[i].batch_size = batch_size
        /\ (pc = "wave1" =>
               /\ Len(wave) = Len(batch_args)
               /\ \A i \in 1 .. Len(wave) :
                      /\ wave[i].batch_size = batch_size
                      /\ wave[i].offset = batch_args[i].offset)
        /\ ((total_count = Some(4500) /\ batch_size = 2000) =>
               batch_args = << [offset |-> 0, batch_size |-> 2000],
                               [offset |-> 2000, batch_size |-> 2000],
                               [offset |-> 4000, batch_size |-> 2000] >>)

C2_Witness ==
    /\ pc = "wave1"
    /\ total_count = Some(4500)
    /\ batch_size = 2000
    /\ Len(wave) = 3
    /\ wave[3].batch_size = 2000

\* C3: with a negative total count or a batch_size <= 0 the fetch ends with the
\* error result and no batch is dispatched.
C3_InvalidArgumentsRejected ==
    (total_count # None /\ (total_count[1] < 0 \/ batch_size <= 0)) =>
        /\ wave = << >>
        /\ (pc = "done" => result = NoneResult)

\* C4: an attempt k in 1..5 that follows k-1 failed attempts and gets a parsable
\* answer without an error member returns status success, attempts k, no error
\* and the features of that answer; a call that has returned requests nothing more.
C4_SuccessOnKthAttempt ==
    /\ [][\A i \in 1 .. Len(wave) : \A r \in OkResponses :
            Request(i, r) =>
               LET k == wave[i].attempt + 1 IN
               /\ k \in 1 .. 5
               /\ wave[i].requests = k - 1
               /\ wave'[i].st = "done"
               /\ wave'[i].requests = k
               /\ wave'[i].outcome.status = "success"
               /\ wave'[i].outcome.attempts = k
               /\ wave'[i].outcome.error = "None"
               /\ wave'[i].outcome.features =
                      (IF r.has_features THEN [j \in 1 .. r.n |-> << wave[i].offset, j >>]
                       ELSE << >>)]_vars
    /\ [][\A i \in 1 .. Len(wave) :
            (wave[i].st = "done" /\ pools' = pools) => wave'[i] = wave[i]]_vars

C4_Witness ==
    \E i \in 1 .. Len(wave) :
        /\ wave[i].st = "done"
        /\ wave[i].outcome.status = "success"
        /\ wave[i].outcome.attempts = 5
        /\ wave[i].requests = 5
        /\ wave[i].outcome.features # << >>

\* The error prefixes that name a failure class.
C5_Names(class) ==
    CASE class = "empty" -> {"Empty response"}
      [] class = "nonjson" -> {"JSON decode error", "Request error"}
      [] class = "service_error" -> {"Service error"}
      [] class \in {"transport", "http"} -> {"Request error"}
      [] class = "other" -> {"Unexpected error"}

\* C5: when the fifth attempt fails after four failed attempts, whatever the
\* failure classes, the call returns status failed, attempts 5, no features and
\* an error naming the class of the fifth failure.
C5_FailedAfterFiveAttempts ==
    /\ [][\A i \in 1 .. Len(wave) : \A r \in Responses :
            (Request(i, r) /\ r.class \in FailureClasses /\ wave[i].requests = 4) =>
               /\ wave'[i].st = "done"
               /\ wave'[i].requests = 5
               /\ wave'[i].outcome.status = "failed"
               /\ wave'[i].outcome.attempts = 5
               /\ wave'[i].outcome.features = << >>
               /\ wave'[i].outcome.error \in C5_Names(r.class)]_vars
    /\ [](\A i \in 1 .. Len(wave) :
            (wave[i].st = "done" /\ wave[i].outcome.status # "success") =>
               /\ wave[i].outcome.status = "failed"
               /\ wave[i].outcome.attempts = 5
               /\ wave[i].outcome.error # "None")

C5_Witness ==
    \E i \in 1 .. Len(wave) :
        /\ wave[i].st = "done"
        /\ wave[i].outcome.status = "failed"
        /\ wave[i].outcome.attempts = 5
        /\ wave[i].outcome.error = "Service error"

\* C6: an empty body, a JSON decode failure, an answer with an error member and
\* a transport or HTTP-status error on an attempt before the fifth are each
\* followed by another attempt, not by a return; a parsed answer without an
\* error member returns success on that attempt, also with no features.
C6_RetryableClasses ==
    [][\A i \in 1 .. Len(wave) : \A r \in Responses :
          Request(i, r) =>
             /\ (r.class \in {"empty", "nonjson", "service_error", "transport", "http"}
                   /\ wave[i].attempt < 4) =>
                    /\ wave'[i].st = "running"
                    /\ wave'[i].outcome.status = "none"
                    /\ wave'[i].attempt = wave[i].attempt + 1
                    /\ wave'[i].phase = "backoff"
                    /\ wave'[i].attempt <= 4
             /\ r.class = "ok" =>
                    /\ wave'[i].st = "done"
                    /\ wave'[i].outcome.status = "success"
                    /\ wave'[i].outcome.attempts = wave[i].attempt + 1]_vars

C6_Witness ==
    \E i \in 1 .. Len(wave) :
        /\ wave[i].st = "done"
        /\ wave[i].outcome.status = "success"
        /\ wave[i].outcome.features = << >>
        /\ wave[i].outcome.attempts = 3

\* C7: no sleep before the first attempt; before the attempt n in 1..4 exactly
\* one sleep of min(2*2^n + jitter, 60) seconds, jitter in [0,1): at most 60 s,
\* at least 2*2^n s when that is under 60, and not shorter than the delay of
\* the attempt before by a jitter or more.  (Ticks of 1/JitterRes second.)
C7_BackoffDelay ==
    /\ [][\A i \in 1 .. Len(wave) : \A jitter \in 0 .. (JitterRes - 1) :
            Backoff(i, jitter) =>
               LET n == wave[i].attempt IN
               /\ n = 0 => (wave[i].sleeps = 0 /\ wave'[i].sleeps = 0)
               /\ n >= 1 =>
                      /\ n <= 4
                      /\ wave'[i].sleeps = wave[i].sleeps + 1
                      /\ wave'[i].sleeps = n
                      /\ wave'[i].delay = Min(2 * (2 ^ n) * JitterRes + jitter, 60 * JitterRes)
                      /\ wave'[i].delay <= 60 * JitterRes
                      /\ (2 * (2 ^ n) < 60 => wave'[i].delay >= 2 * (2 ^ n) * JitterRes)
                      /\ wave'[i].delay < (2 * (2 ^ n) + 1) * JitterRes
                      /\ wave'[i].delay + JitterRes > wave[i].delay]_vars
    /\ [][\A i \in 1 .. Len(wave) : \A r \in Responses :
            Request(i, r) => wave'[i].sleeps = wave[i].sleeps]_vars
    /\ [](\A i \in 1 .. Len(wave) :
            wave[i].st = "done" => wave[i].sleeps = wave[i].requests - 1)

C7_Witness ==
    \E i \in 1 .. Len(wave) :
        /\ wave[i].st = "running"
        /\ wave[i].phase = "request"
        /\ wave[i].attempt = 4
        /\ wave[i].sleeps = 4
        /\ wave[i].delay = 32 * JitterRes + (JitterRes - 1)

\* C8: a count request that fails in any way (transport error, HTTP error
\* status, body that is not JSON or not an object, error payload or other
\* answer without a count) makes fetch_data return the error result at once,
\* with no window planned and no batch dispatched.
C8_CountFailureIsFatal ==
    [][\A r \in CountResponses \ {"count"} :
          GetTotalCount(r) =>
             /\ pc' = "done"
             /\ result' = NoneResult
             /\ batch_args' = << >>
             /\ wave' = << >>]_vars

\* C9: the pool of the initial wave has the size of the max_processes argument
\* when given, else of the configured max_processes when set, else of
\* min(cpu_count, 4); the recovery pool is not larger, and no pool runs more
\* tasks at once than its size.
C9_PoolSizePrecedence ==
    /\ Len(pools) <= 2
    /\ (pc \in {"wave1", "wave2", "finish"} => Len(pools) >= 1)
    /\ (Len(pools) >= 1 =>
           /\ (argMaxProcesses # None => pools[1] = argMaxProcesses[1])
           /\ ((argMaxProcesses = None /\ selfMaxProcesses # None) =>
                  pools[1] = selfMaxProcesses[1])
           /\ ((argMaxProcesses = None /\ selfMaxProcesses = None) =>
                  pools[1] = (IF cpu_count < 4 THEN cpu_count ELSE 4))
           /\ Cardinality({i \in 1 .. Len(wave) : wave[i].st = "running"})
                  <= pools[Len(pools)])
    /\ (Len(pools) = 2 => pools[2] <= pools[1])

C9_Witness ==
    /\ pc = "wave2"
    /\ argMaxProcesses = Some(2)
    /\ selfMaxProcesses = Some(1)
    /\ pools = << 2, 1 >>
    /\ wave[1].st = "running"

\* The number of times f occurs in the sequence s.
C10_Count(f, s) == Cardinality({k \in 1 .. Len(s) : s[k] = f})

\* The number of times f occurs in the features of the successful outcomes of s.
RECURSIVE C10_CountInSuccesses(_, _)
C10_CountInSuccesses(f, s) ==
    IF s = << >> THEN 0
    ELSE (IF Head(s).status = "success" THEN C10_Count(f, Head(s).features) ELSE 0)
           + C10_CountInSuccesses(f, Tail(s))

\* The number of features of the successful outcomes of s.
RECURSIVE C10_SizeOfSuccesses(_)
C10_SizeOfSuccesses(s) ==
    IF s = << >> THEN 0
    ELSE (IF Head(s).status = "success" THEN Len(Head(s).features) ELSE 0)
           + C10_SizeOfSuccesses(Tail(s))

C10_FeatureIds ==
    {result.features[k] : k \in 1 .. Len(result.features)}
      \cup UNION {{results[i].features[k] : k \in 1 .. Len(results[i].features)} :
                     i \in 1 .. Len(results)}
      \cup UNION {{retry_results[i].features[k] : k \in 1 .. Len(retry_results[i].features)} :
                     i \in 1 .. Len(retry_results)}

\* C10: whatever the order in which the tasks of the two waves completed, the
\* returned FeatureCollection holds each feature as many times as the successful
\* outcomes of both waves hold it (its size is the sum of their sizes), and
\* holds no feature of a failed outcome.
C10_MergeIsOrderIndependent ==
    (pc = "done" /\ result.type = "FeatureCollection") =>
        /\ \A f \in C10_FeatureIds :
               C10_Count(f, result.features) =
                   C10_CountInSuccesses(f, results) + C10_CountInSuccesses(f, retry_results)
        /\ Len(result.features) =
               C10_SizeOfSuccesses(results) + C10_SizeOfSuccesses(retry_results)
        /\ \A o \in {results[i] : i \in 1 .. Len(results)}
                      \cup {retry_results[i] : i \in 1 .. Len(retry_results)} :
               o.status # "success" => o.features = << >>

C10_Witness ==
    /\ pc = "done"
    /\ result.type = "FeatureCollection"
    /\ order = << << 1, 2 >>, << 1, 1 >>, << 2, 1 >> >>
    /\ results[2].status = "success"
    /\ results[1].status = "failed"
    /\ retry_results[1].status = "success"
    /\ Len(result.features) = 2

\* The initial wave has been collected (lines 267-280 have run).
Collected == pc \in {"wave2", "finish"} \/ (pc = "done" /\ Len(pools) >= 1)

\* The number of tasks of the open pool dispatched for the window of outcome o.
C11_Dispatched(o) ==
    Cardinality({j \in 1 .. Len(wave) :
                    wave[j].offset = o.offset /\ wave[j].batch_size = o.batch_size})

\* C11: one recovery wave runs when the initial wave has a failed outcome and
\* none otherwise; it dispatches exactly the windows (offset and size) whose
\* initial outcome was failed, each once, and no window that succeeded.
C11_OneRecoveryWave ==
    /\ Len(pools) <= 2
    /\ (Len(pools) = 2 => Collected)
    /\ Collected =>
           /\ Len(results) = Len(batch_args)
           /\ (Len(pools) = 2 <=> \E i \in 1 .. Len(results) : results[i].status = "failed")
           /\ (Len(pools) = 2 =>
                  /\ Len(wave) = Cardinality({i \in 1 .. Len(results) :
                                                 results[i].status = "failed"})
                  /\ \A i \in 1 .. Len(results) :
                         C11_Dispatched(results[i]) =
                             (IF results[i].status = "failed" THEN 1 ELSE 0)
                  /\ \A j \in 1 .. Len(wave) :
                         \E i \in 1 .. Len(results) :
                             /\ results[i].status = "failed"
                             /\ wave[j].offset = results[i].offset
                             /\ wave[j].batch_size = results[i].batch_size)

C11_Witness ==
    /\ pc = "wave2"
    /\ Len(results) = 2
    /\ results[1].status = "success"
    /\ results[2].status = "failed"
    /\ Len(wave) = 1
    /\ wave[1].offset = 2
    /\ wave[1].requests = 3

\* The windows (by offset) that failed in the initial and in the recovery wave.
C12_FailedTwice ==
    {o \in {results[i].offset : i \in 1 .. Len(results)} :
        /\ \E i \in 1 .. Len(results) :
               results[i].offset = o /\ results[i].status = "failed"
        /\ \E j \in 1 .. Len(retry_results) :
               retry_results[j].offset = o /\ retry_results[j].status = "failed"}

\* The ledger holds one entry per window that failed twice: its recovery outcome.
C12_LedgerContent ==
    /\ Len(ledgers) = 1
    /\ Len(ledgers[1].persistent_failures) = Cardinality(C12_FailedTwice)
    /\ \A o \in C12_FailedTwice :
           \E k \in 1 .. Len(ledgers[1].persistent_failures) :
               /\ ledgers[1].persistent_failures[k].offset = o
               /\ \E j \in 1 .. Len(retry_results) :
                      ledgers[1].persistent_failures[k] = retry_results[j]

C13_FailuresAreNotFatal ==
    [][\A ledgerOk \in BOOLEAN, output \in {"none", "ok", "fail"} :
          (Finish(ledgerOk, output) /\ persistent_failures # << >>
             /\ ledgerOk /\ output # "fail") =>
               /\ result'.type = "FeatureCollection"
               /\ Len(result'.features) =
                      C10_SizeOfSuccesses(results) + C10_SizeOfSuccesses(retry_results)
               /\ \A i \in 1 .. Len(results) :
                      results[i].status = "success" =>
                          \A k \in 1 .. Len(results[i].features) :
                              \E m \in 1 .. Len(result'.features) :
                                  result'.features[m] = results[i].features[k]
               /\ \A i \in 1 .. Len(retry_results) :
                      retry_results[i].status = "success" =>
                          \A k \in 1 .. Len(retry_results[i].features) :
                              \E m \in 1 .. Len(result'.features) :
                                  result'.features[m] = retry_results[i].features[k]]_vars

C13_Witness ==
    /\ pc = "done"
    /\ persistent_failures # << >>
    /\ result.type = "FeatureCollection"
    /\ result.features # << >>
    /\ \E j \in 1 .. Len(retry_results) : retry_results[j].status = "success"

\* C15: no task of the recovery wave exists before every worker of the initial
\* wave has returned its outcome; no ledger is written and no result returned
\* before every worker of the recovery wave has returned; the coordinator stays
\* in a wave while one of its workers has not returned.
C15_WaveBarrier ==
    /\ [](Len(pools) = 2 =>
            /\ Len(results) = Len(batch_args)
            /\ \A i \in 1 .. Len(results) : results[i].status \in {"success", "failed"})
    /\ []((ledgers # << >> \/ result # NoResult \/ pc \in {"finish", "done"}) =>
            \A i \in 1 .. Len(wave) :
                wave[i].st = "done" /\ wave[i].outcome.status \in {"success", "failed"})
    /\ [][(pc \in {"wave1", "wave2"}
             /\ \E i \in 1 .. Len(wave) : wave[i].st # "done") => pc' = pc]_vars

C15_Witness ==
    /\ pc = "wave2"
    /\ Len(results) = 2
    /\ Len(wave) = 2
    /\ wave[1].requests = 2
    /\ wave[2].st = "done"

\* C14: two fetch_data runs that both end with unrecovered failures write
\* distinct ledger files: the file a run has written keeps that run's ledger.
C14_LedgersNeverClobbered ==
    \A r \in DOMAIN runs :
        runs[r].ledger # None =>
            /\ files[runs[r].ledger[1]] # << >>
            /\ files[runs[r].ledger[1]][1].owner = r
            /\ \A q \in DOMAIN runs \ {r} : runs[q].ledger # runs[r].ledger

\* C16: retry_failed_batches dispatches one worker call per entry of the
\* ledger's persistent_failures, with the entry's offset and batch_size and the
\* ledger's params, and no other; the returned FeatureCollection holds exactly
\* the features of the calls that succeed.
C16_ReplayDispatchesLedgerEntries ==
    LET entries == replay.ledger_file.persistent_failures IN
    /\ replay.pc = "wave" =>
           /\ Len(wave) = Len(entries)
           /\ Len(replay.retry_args) = Len(entries)
           /\ \A i \in 1 .. Len(entries) :
                  /\ wave[i].offset = entries[i].offset
                  /\ wave[i].batch_size = entries[i].batch_size
                  /\ replay.retry_args[i].offset = entries[i].offset
                  /\ replay.retry_args[i].batch_size = entries[i].batch_size
                  /\ replay.retry_args[i].params = replay.ledger_file.params
    /\ (replay.pc = "done" /\ replay.result.type = "FeatureCollection") =>
           /\ Len(replay.retry_results) = Len(entries)
           /\ \A i \in 1 .. Len(entries) : replay.retry_results[i] = wave[i].outcome
           /\ Len(replay.result.features) = C10_SizeOfSuccesses(replay.retry_results)
           /\ \A i \in 1 .. Len(replay.retry_results) :
                  \A k \in 1 .. Len(replay.retry_results[i].features) :
                      C10_Count(replay.retry_results[i].features[k], replay.result.features)
                        = C10_CountInSuccesses(replay.retry_results[i].features[k],
                                               replay.retry_results)

C16_Witness ==
    /\ replay.pc = "done"
    /\ replay.result.type = "FeatureCollection"
    /\ replay.ledger_file.persistent_failures = << FailedAt(2), FailedWide(4) >>
    /\ replay.retry_results[1].status = "failed"
    /\ replay.retry_results[2].status = "success"
    /\ replay.result.features = << << 4, 1 >> >>

\* C17: the result of retry_failed_batches carries the list of the windows that
\* failed again, or that list is persisted in a ledger file.
C17_ResidualReported ==
    (replay.pc = "done" /\ replay.result.type = "FeatureCollection"
       /\ replay.still_failed # << >>) =>
        \/ /\ "still_failed" \in DOMAIN replay.result
           /\ replay.result.still_failed = replay.still_failed
        \/ files # NoFiles

C19_TimeoutReported ==
    [][\A r \in {"timeout", "body_timeout"}, elapsed \in 0 .. MaxElapsed :
          Probe(r, elapsed) =>
              LET entry == probe'.results[Len(probe'.results)] IN
              /\ entry.status = "error"
              /\ entry.status_code = None
              /\ entry.error = "Request timeout after {timeout} seconds"
              /\ entry.response_time # None
              /\ entry.response_time[1] >= 0]_vars

\* C20: in every report successful + failed = total_endpoints, total_endpoints
\* is the number of configured services of the tested states, each of them
\* has exactly one entry, and the entries with status success (error) are
\* `successful` (`failed`) many.
C20_SummaryAddsUp ==
    probe.pc = "done" /\ probe.raised = "None" =>
        LET summary == probe.report.summary
            entries == probe.report.results
            tested == EndpointsOf(StatesToTest(probe.state))
        IN  /\ summary.successful + summary.failed = summary.total_endpoints
            /\ summary.total_endpoints = Len(tested)
            /\ \A k \in 1 .. Len(tested) :
                   Cardinality({i \in 1 .. Len(entries) :
                                   << entries[i].state, entries[i].service >> = tested[k]}) = 1
            /\ Len(entries) = Len(tested)
            /\ Cardinality({i \in 1 .. Len(entries) : entries[i].status = "success"})
                 = summary.successful
            /\ Cardinality({i \in 1 .. Len(entries) : entries[i].status = "error"})
                 = summary.failed

C20_Witness ==
    /\ probe.pc = "done"
    /\ probe.state = "None"
    /\ probe.report.summary.total_endpoints = 3
    /\ probe.report.summary.successful = 1
    /\ probe.report.summary.failed = 2
    /\ probe.report.results[2].error = "Connection failed - endpoint unreachable"
    /\ probe.report.summary.success_rate = 3333

\* C25: the params dict handed to the workers is never changed by them: it has
\* no resultOffset / resultRecordCount member at any time, each request carries
\* a copy with the window's two members, and the ledger records the original.
C25_WorkerLeavesParamsAlone ==
    /\ params = DefaultParams
    /\ \A i \in 1 .. Len(wave) :
           wave[i].batch_params # NoParams =>
               /\ wave[i].batch_params.resultOffset = wave[i].offset
               /\ wave[i].batch_params.resultRecordCount = wave[i].batch_size
               /\ \A k \in DOMAIN DefaultParams : wave[i].batch_params[k] = DefaultParams[k]
    /\ \A k \in 1 .. Len(ledgers) : ledgers[k].params = DefaultParams

C25_Witness ==
    /\ pc = "done"
    /\ Len(pools) = 2
    /\ Len(ledgers) = 1
    /\ Len(ledgers[1].persistent_failures) = 2
    /\ ledgers[1].persistent_failures[2].attempts = max_retries
    /\ ledgers[1].params = DefaultParams
    /\ params = DefaultParams

\* C30: every outcome of _fetch_data_batch has 1 <= attempts <= 5 and attempts
\* is the number of requests the call issued; the recovery wave starts a
\* window at attempt 0 again, so one fetch_data call issues at most 10 data
\* requests for a window.
C30_AttemptBudget ==
    /\ \A i \in 1 .. Len(wave) :
           /\ wave[i].attempt < max_retries
           /\ wave[i].requests <= max_retries
           /\ wave[i].st = "queued" => (wave[i].attempt = 0 /\ wave[i].requests = 0)
           /\ wave[i].st = "done" =>
                  /\ wave[i].outcome.attempts \in 1 .. max_retries
                  /\ wave[i].outcome.attempts = wave[i].requests
    /\ \A i \in 1 .. Len(results) : results[i].attempts \in 1 .. max_retries
    /\ \A i \in 1 .. Len(retry_results) : retry_results[i].attempts \in 1 .. max_retries
    /\ pc = "wave2" =>
           \A i \in 1 .. Len(wave) :
               /\ wave[i].offset = failed_batches[i].offset
               /\ failed_batches[i].attempts + wave[i].requests <= 2 * max_retries

C30_Witness ==
    /\ pc = "wave2"
    /\ Len(wave) = 2
    /\ wave[1].st = "done"
    /\ wave[1].outcome.status = "failed"
    /\ failed_batches[1].attempts + wave[1].requests = 2 * max_retries
    /\ wave[2].st = "done"
    /\ wave[2].outcome.status = "success"
    /\ wave[2].outcome.attempts = 1

\* C21: a failed probe of any class never aborts test_endpoints: the next
\* endpoint is probed, every endpoint of every tested state is recorded exactly
\* once and in order, and the call returns a report instead of raising.
C21_ProbeFailuresAreNotFatal ==
    LET tested == EndpointsOf(StatesToTest(probe.state)) IN
    (probe.pc \in {"loop", "done"} /\ probe.raised = "None") =>
        /\ Len(probe.results) + Len(probe.todo) = Len(tested)
        /\ \A i \in 1 .. Len(probe.results) :
               << probe.results[i].state, probe.results[i].service >> = tested[i]
        /\ \A i \in 1 .. Len(probe.todo) : probe.todo[i] = tested[Len(probe.results) + i]
        /\ Len(probe.sent) = Len(probe.results)
        /\ probe.pc = "done" =>
               /\ probe.todo = << >>
               /\ probe.report.results = probe.results
               /\ Len(probe.report.results) = Len(tested)

C21_Witness ==
    /\ probe.pc = "done"
    /\ probe.raised = "None"
    /\ Len(probe.report.results) = 3
    /\ probe.report.results[1].error = "Request timeout after {timeout} seconds"
    /\ probe.report.results[2].error = "Unexpected error"
    /\ probe.report.results[3].error = "HTTP Error"
    /\ probe.report.summary.failed = 3

\* C22: test_endpoints leaves the registry and the fetch state as they were:
\* the states, the services and every fetcher's url, where, default_params
\* and max_processes; every request it issues is a count-only request.
C22_ProbeLeavesFetchStateAlone ==
    /\ client = NewClient("A")
    /\ params = DefaultParams
    /\ pc = "idle" /\ wave = << >> /\ ledgers = << >> /\ files = NoFiles
    /\ \A i \in 1 .. Len(probe.sent) :
           /\ probe.sent[i].params.returnCountOnly = "true"
           /\ "resultOffset" \notin DOMAIN probe.sent[i].params
           /\ "resultRecordCount" \notin DOMAIN probe.sent[i].params

C22_Witness ==
    /\ probe.pc = "done"
    /\ Len(probe.sent) = 3
    /\ probe.report.summary.successful = 2
    /\ probe.report.results[2].error = "Invalid response structure"
    /\ client.fetchers[2].default_params.where = "zone > 0"
    /\ client.fetchers[1].max_processes = Some(2)

\* C28: an unknown state name raises ValueError before any request is issued;
\* a known state has only its own endpoints probed; no state has the endpoints
\* of every state probed.
C28_StateArgument ==
    /\ probe.raised = "ValueError" <=>
           (probe.pc = "done" /\ probe.state \notin {"None", "oregon", "washington", "idaho"})
    /\ probe.raised = "ValueError" => (probe.sent = << >> /\ probe.results = << >>)
    /\ probe.state \notin {"None", "oregon", "washington", "idaho"} => probe.sent = << >>
    /\ probe.state \in {"oregon", "washington", "idaho"} =>
           /\ \A i \in 1 .. Len(probe.sent) : probe.sent[i].url[2] = probe.state
           /\ probe.pc = "done" =>
                  [i \in 1 .. Len(probe.sent) |-> probe.sent[i].url[3]] = Services(probe.state)
    /\ (probe.state = "None" /\ probe.pc = "done") =>
           [i \in 1 .. Len(probe.sent) |-> << probe.sent[i].url[2], probe.sent[i].url[3] >>]
             = << << "oregon", "taxlots" >>, << "oregon", "zoning" >>,
                  << "washington", "parcels" >> >>

C28_Witness ==
    /\ probe.pc = "done"
    /\ probe.state = "washington"
    /\ Len(probe.sent) = 1
    /\ probe.sent[1].url = << "A", "washington", "parcels" >>
    /\ probe.report.summary.total_endpoints = 1

\* C23: constructing the client on a missing configuration file raises
\* FileNotFoundError, on a file that is not YAML ValueError; whenever the
\* construction raises there is no client object, and a client that is handed
\* out has the complete registry of its file.
C23_ConstructionFailsFast ==
    [][\A file \in ConfigFiles :
          Construct(file) =>
              /\ file = "missing" => client'.status = "FileNotFoundError"
              /\ file = "not_yaml" => client'.status = "ValueError"
              /\ client'.status # "ok" =>
                     (client'.states = << >> /\ client'.fetchers = << >>)
              /\ client'.status = "ok" =>
                     /\ file \in {"A", "B"}
                     /\ client'.states = BuiltStates(file, 0)
                     /\ Len(client'.fetchers) =
                            Len(ConfigEndpoints(file, ConfigStateNames(file)))]_vars

C23_Witness ==
    /\ client.status = "FileNotFoundError"
    /\ client.states = << >>
    /\ client.captured = 0
    /\ pc = "idle"

\* C24: reload_config, at any point of a fetch_data call on a fetcher that was
\* obtained before, leaves that fetcher as it was captured (url, where,
\* default_params, max_processes), and the fetch goes on with those values.
C24_ReloadLeavesCapturedFetcher ==
    client.captured # 0 =>
        /\ client.fetchers[client.captured] = client.snapshot
        /\ pc # "idle" =>
               /\ selfMaxProcesses = client.snapshot.max_processes
               /\ params = client.snapshot.default_params
               /\ \A k \in 1 .. Len(ledgers) : ledgers[k].params = client.snapshot.default_params

C24_Witness ==
    /\ pc = "done"
    /\ result.type = "FeatureCollection"
    /\ result.features # << >>
    /\ Len(pools) = 2
    /\ client.reloads = 1
    /\ client.reload_pc = "wave1"
    /\ client.config = "B"
    /\ client.captured = 2
    /\ client.snapshot.url = << "A", "oregon", "zoning" >>
    /\ client.fetchers[4].url = << "B", "oregon", "zoning" >>
    /\ \A k \in 1 .. Len(client.states) : client.states[k].state # "washington"

\* C29: the fetch that fetch_with_custom_params runs has the given batch_size
\* as its page size (window stride and record count), the given max_processes
\* as its pool size argument, and custom_params as its request parameters.
C29_CustomFetchUsesItsArguments ==
    custom.pc = "called" =>
        /\ custom.raised = "None"
        /\ batch_size = custom.args.batch_size
        /\ argMaxProcesses = custom.args.max_processes
        /\ params = custom.args.custom_params
        /\ \A i \in 1 .. Len(batch_args) :
               /\ batch_args[i].batch_size = custom.args.batch_size
               /\ batch_args[i].offset = (i - 1) * custom.args.batch_size
        /\ (pools # << >> /\ custom.args.max_processes # None) =>
               pools[1] = custom.args.max_processes[1]

\* The two-letter, lower-case abbreviation of a state given on the command line.
C26_Abbreviation(state) ==
    CASE state \in {"OR", "oregon"} -> "or"
      [] state = "WA" -> "wa"
      [] state = "CA" -> "ca"

C26_Calls(fn) == {i \in 1 .. Len(cli.calls) : cli.calls[i].fn = fn}

\* C26: run_fetch returns 0 when every step it runs completes and 1 when one
\* of them raises, and never raises itself; when only soil and/or elevation
\* are requested, soil_main is called exactly once (if soil is requested) with
\* the lower-case abbreviation and the config path, the parcel path is not
\* run, and the exit code is 0 when the calls complete.
C26_RunFetchExitCode ==
    (cli.pc = "done" /\ cli.entry = "run_fetch") =>
        /\ cli.raised = "None"
        /\ cli.exit = IF \E i \in 1 .. Len(cli.calls) : cli.calls[i].outcome # "ok"
                      THEN Some(1) ELSE Some(0)
        /\ (/\ cli.layers # None
            /\ cli.layers[1] # << >>
            /\ \A i \in 1 .. Len(cli.layers[1]) : cli.layers[1][i] \in {"soil", "elevation"}) =>
               /\ C26_Calls("ParcelProcessor") = {}
               /\ C26_Calls("process_service") = {}
               /\ InList("soil", cli.layers[1]) =>
                      /\ Cardinality(C26_Calls("soil_main")) = 1
                      /\ cli.calls[1].args = << C26_Abbreviation(cli.state), cli.config_path >>
               /\ (\A i \in 1 .. Len(cli.calls) : cli.calls[i].outcome = "ok") =>
                      cli.exit = Some(0)

\* C27: main calls run_fetch once with the state, the layers in command-line
\* order (None without a layer flag), the config path and the overwrite flag
\* as given, or run_process once with (table, state), and returns the exit
\* code of that call.
C27_MainDispatch ==
    (cli.pc = "done" /\ cli.entry = "main") =>
        /\ Len(cli.calls) = 1
        /\ cli.exit = Some(cli.calls[1].outcome)
        /\ cli.command = "fetch" =>
               /\ cli.calls[1].fn = "run_fetch"
               /\ cli.calls[1].args =
                      << cli.state, cli.layers, cli.config_path, cli.overwrite >>
        /\ cli.command = "process" =>
               /\ cli.calls[1].fn = "run_process"
               /\ cli.calls[1].args = << cli.table, cli.state >>

C27_Witness ==
    /\ cli.pc = "done"
    /\ cli.entry = "main"
    /\ cli.argv = << "fetch", "-l", "fpd", "-l", "soil", "--config", "custom.yml",
                     "--overwrite", "OR" >>
    /\ cli.calls[1].args = << "OR", Some(<< "fpd", "soil" >>), Some("custom.yml"), TRUE >>
    /\ cli.exit = Some(1)

\* An outcome as _fetch_data_batch builds it: failed with an error text and no
\* features, or successful without an error.
C31_WellFormed(o) ==
    /\ o.status \in {"success", "failed"}
    /\ o.status = "failed" => (o.features = << >> /\ o.error # "None")
    /\ o.status = "success" => o.error = "None"

\* C31: each wave yields exactly one outcome per dispatched window, every
\* outcome echoes the offset and batch_size of its window, a failed outcome
\* has no features and an error, a successful outcome has no error.
C31_OneOutcomePerWindow ==
    /\ \A k \in 1 .. Len(order), m \in 1 .. Len(order) : k # m => order[k] # order[m]
    /\ \A i \in 1 .. Len(wave) :
           /\ wave[i].st = "done" <=>
                  \E k \in 1 .. Len(order) : order[k] = << Len(pools), i >>
           /\ wave[i].st = "done" =>
                  /\ C31_WellFormed(wave[i].outcome)
                  /\ wave[i].outcome.offset = wave[i].offset
                  /\ wave[i].outcome.batch_size = wave[i].batch_size
    /\ Collected =>
           /\ Len(results) = Len(batch_args)
           /\ \A i \in 1 .. Len(results) :
                  /\ C31_WellFormed(results[i])
                  /\ results[i].offset = batch_args[i].offset
                  /\ results[i].batch_size = batch_args[i].batch_size
    /\ (pc \in {"finish", "done"} /\ Len(pools) = 2) =>
           /\ Len(retry_results) = Len(failed_batches)
           /\ \A j \in 1 .. Len(retry_results) :
                  /\ C31_WellFormed(retry_results[j])
                  /\ retry_results[j].offset = failed_batches[j].offset
                  /\ retry_results[j].batch_size = failed_batches[j].batch_size

C31_Witness ==
    /\ pc = "finish"
    /\ Len(results) = 2
    /\ results[1].status = "failed"
    /\ results[2].status = "success"
    /\ Len(retry_results) = 1
    /\ retry_results[1].status = "failed"
    /\ retry_results[1].error = "Unexpected error"
    /\ retry_results[1].offset = 0

\* The windows of the plan that succeeded in the initial or the recovery wave.
C32_Succeeded ==
    {i \in 1 .. Len(batch_args) :
        \/ results[i].status = "success"
        \/ \E j \in 1 .. Len(retry_results) :
               /\ retry_results[j].offset = batch_args[i].offset
               /\ retry_results[j].status = "success"}

\* The windows of the plan listed in the persistent failures of ledger l.
C32_Listed(l) ==
    {i \in 1 .. Len(batch_args) :
        \E k \in 1 .. Len(l.persistent_failures) :
            l.persistent_failures[k].offset = batch_args[i].offset}

\* C32: in every ledger written by fetch_data, total_batches is the number of
\* planned windows, successful_batches the number of windows that succeeded in
\* the initial wave plus those recovered, persistent_failures is non-empty,
\* the two add up to total_batches and every window is counted in exactly one
\* of the two.
C32_LedgerAccounts ==
    \A n \in 1 .. Len(ledgers) :
        LET l == ledgers[n] IN
        /\ l.total_batches = Len(batch_args)
        /\ l.successful_batches =
               Len(SelectSeq(results, IsSuccess)) + Len(SelectSeq(retry_results, IsSuccess))
        /\ l.successful_batches = Cardinality(C32_Succeeded)
        /\ l.persistent_failures # << >>
        /\ Len(l.persistent_failures) = Cardinality(C32_Listed(l))
        /\ l.successful_batches + Len(l.persistent_failures) = l.total_batches
        /\ C32_Succeeded \cap C32_Listed(l) = {}
        /\ C32_Succeeded \cup C32_Listed(l) = 1 .. Len(batch_args)

C32_Witness ==
    /\ Len(ledgers) = 1
    /\ ledgers[1].total_batches = 2
    /\ ledgers[1].successful_batches = 1
    /\ Len(ledgers[1].persistent_failures) = 1
    /\ results[1].status = "failed"
    /\ results[2].status = "failed"
    /\ retry_results[2].status = "success"

\* C33: once the count has been obtained and the waves have run, fetch_data
\* returns the merged features: a failure while writing the failure-ledger
\* file or the output file does not turn the result into the error result.
C33_WriteFailureKeepsFeatures ==
    (pc = "done" /\ Len(pools) >= 1) =>
        /\ result.type = "FeatureCollection"
        /\ result.features = all_features

\* C34: test_endpoints reports an endpoint as success only when the request
\* returned an OK status and a JSON body that carries a count or features
\* member and no service error; a body with an "error" member is reported
\* with status error.
C34_SuccessMeansValidBody ==
    [][\A r \in ProbeAnswers, elapsed \in 0 .. MaxElapsed :
          Probe(r, elapsed) =>
              LET entry == probe'.results[Len(probe'.results)] IN
              /\ entry.status = "success" =>
                     /\ r \in ProbeBodies
                     /\ r # "list"
                     /\ ProbeMembers(r) \cap {"count", "features"} # {}
                     /\ "error" \notin ProbeMembers(r)
              /\ (r \in ProbeBodies /\ "error" \in ProbeMembers(r)) =>
                     entry.status = "error"]_vars

\* The state names of a configuration file.
C35_Configured(file) ==
    {ConfigStateNames(file)[k] : k \in 1 .. Len(ConfigStateNames(file))}

\* C35: after every successful reload_config the states known to the client
\* (lookup table and attributes) are exactly the states of the reloaded file:
\* added states appear, removed states are gone from both, and every state
\* exposes the services of the new file.
C35_RegistryFollowsFile ==
    (client.status = "ok" /\ client.reloads > 0 /\ client.reload_raised = "None") =>
        /\ {client.states[k].state : k \in 1 .. Len(client.states)} =
               C35_Configured(client.config)
        /\ client.attrs = C35_Configured(client.config)
        /\ \A k \in 1 .. Len(client.states), m \in 1 .. Len(client.states) :
               client.states[k].state = client.states[m].state => k = m
        /\ \A k \in 1 .. Len(client.states) :
               LET st == client.states[k]
                   expected == ConfigServices(client.config, st.state)
               IN  /\ Len(st.services) = Len(expected)
                   /\ \A i \in 1 .. Len(expected) :
                          /\ st.services[i].service = expected[i]
                          /\ client.fetchers[st.services[i].fetcher] =
                                 NewFetcher(ServiceInfo(client.config, st.state, expected[i]))

C35_Witness ==
    /\ client.status = "ok"
    /\ client.reloads = 1
    /\ client.reload_raised = "None"
    /\ client.config = "B"
    /\ client.attrs = {"oregon", "texas"}
    /\ Len(client.states) = 2
    /\ client.states[2].state = "texas"
    /\ client.fetchers[client.states[1].services[1].fetcher].where = "zone > 1"

\* C36: a reload_config that fails (file missing, invalid YAML, a structurally
\* invalid state or service entry) leaves the registry exactly as it was
\* before the call: no state is added, replaced or removed.
C36_FailedReloadLeavesRegistry ==
    [][\A file \in ReloadFiles :
          (Reload(file) /\ (LoadConfigRaises(file) # "None" \/ BuildRaises(file) # "None")) =>
              /\ client'.states = client.states
              /\ client'.attrs = client.attrs]_vars

\* C37: retry_failed_batches sends every replayed request to the service URL
\* recorded in the ledger (service_url), also when the fetcher it is called
\* on is configured for another endpoint.
C37_ReplayUsesLedgerUrl ==
    replay.pc \in {"wave", "done"} =>
        \A i \in 1 .. Len(replay.retry_args) :
            replay.retry_args[i].url = replay.ledger_file.service_url

\* The parcel layers of a layer list, in the order given.
C38_ParcelLayers(list) == SelectSeq(list, LAMBDA l : l \notin {"soil", "elevation"})

\* The process_service calls made, in the order made.
C38_Processed == SelectSeq(cli.calls, LAMBDA c : c.fn = "process_service")

\* C38: run_fetch processes the parcel layers in the order given and stops at
\* the first layer whose processing raises, returning 1 without processing a
\* later layer; soil and elevation run before any parcel layer and are not in
\* the list that is then processed.
C38_LayersInOrder ==
    (cli.pc = "done" /\ cli.entry = "run_fetch" /\ cli.layers # None) =>
        LET parcel == C38_ParcelLayers(cli.layers[1])
            done == C38_Processed
            separate == {"soil_main", "elevation_main"}
        IN  /\ Len(done) <= Len(parcel)
            /\ \A i \in 1 .. Len(done) :
                   /\ done[i].args[1] = parcel[i]
                   /\ i < Len(done) => done[i].outcome = "ok"
            /\ ((\A i \in 1 .. Len(cli.calls) :
                    cli.calls[i].fn \in separate => cli.calls[i].outcome = "ok")
                  /\ Len(done) < Len(parcel)) =>
                   /\ Len(done) > 0
                   /\ done[Len(done)].outcome # "ok"
                   /\ cli.exit = Some(1)
            /\ \A i \in 1 .. Len(cli.calls), j \in 1 .. Len(cli.calls) :
                   (cli.calls[i].fn \in separate /\ cli.calls[j].fn \notin separate) => i < j

\* The largest number of windows of a wave: batch_size is 2 where there is one.
C39_MaxWindows == (MaxCount + 1) \div 2

\* C39: provided every request returns or times out, every _fetch_data_batch
\* call eventually returns an outcome and every fetch_data call eventually
\* returns; no worker loops beyond max_retries attempts and no third wave is
\* opened.
C39_FetchTerminates ==
    /\ <>(pc = "done" /\ result # NoResult)
    /\ \A i \in 1 .. C39_MaxWindows :
           (Running(i) ~> (Done(i) /\ wave[i].outcome.status \in {"success", "failed"}))
    /\ [](Len(pools) <= 2)
    /\ [](\A i \in 1 .. Len(wave) : wave[i].attempt < max_retries)

C39_Witness ==
    /\ pc = "done"
    /\ result.type = "FeatureCollection"
    /\ Len(pools) = 2
    /\ Len(retry_results) = 2
    /\ retry_results[1].status = "failed"
    /\ retry_results[1].attempts = max_retries
    /\ retry_results[1].error = "Request error"
    /\ retry_results[2].status = "success"
    /\ wave[1].requests = max_retries

\* The batches joined in order.
RECURSIVE C40_Joined(_)
C40_Joined(batches) ==
    IF batches = << >> THEN << >> ELSE Head(batches) \o C40_Joined(Tail(batches))

\* The position of batch k in the order of completion.
C40_CompletedAt(k) ==
    CHOOSE n \in 1 .. Len(concurrent.completed) : concurrent.completed[n] = k

\* The batches are consecutive, at most batch_size long, and partition items.
C40_Partition ==
    /\ C40_Joined(concurrent.batches) = concurrent.items
    /\ \A k \in 1 .. Len(concurrent.batches) :
           /\ Len(concurrent.batches[k]) >= 1
           /\ Len(concurrent.batches[k]) <= concurrent.batch_size

\* Each batch is submitted once, a batch is yielded at most once and only when
\* its call is complete, with the call's result or None when the call raised.
C40_OneValuePerBatch ==
    /\ Len(concurrent.submitted) = Len(concurrent.batches)
    /\ Len(concurrent.futures) = Len(concurrent.batches)
    /\ \A k \in 1 .. Len(concurrent.batches) : concurrent.submitted[k] = k
    /\ \A a \in 1 .. Len(concurrent.yielded), b \in 1 .. Len(concurrent.yielded) :
           concurrent.yielded[a].batch = concurrent.yielded[b].batch => a = b
    /\ \A a \in 1 .. Len(concurrent.yielded) :
           LET k == concurrent.yielded[a].batch IN
           /\ concurrent.futures[k].st = "done"
           /\ concurrent.yielded[a].value =
                  IF concurrent.futures[k].raised THEN None
                  ELSE Some(<< "rows", concurrent.batches[k] >>)

\* Leaving the context has waited for every submitted batch.
C40_ExitWaits ==
    concurrent.pc = "exited" =>
        \A k \in 1 .. Len(concurrent.futures) : concurrent.futures[k].st = "done"

\* C40 as stated: the ConcurrentFetcher splits its items into consecutive
\* batches of at most batch_size that partition the item list, submits each
\* batch once, and iterating it yields one value per batch in completion
\* order, the result or None when the call raised; leaving the context waits
\* for all submitted batches.
C40_BatchesYieldedInCompletionOrder ==
    concurrent.pc \in {"entered", "iterating", "exited"} =>
        /\ C40_Partition
        /\ C40_OneValuePerBatch
        /\ \A a \in 1 .. Len(concurrent.yielded), b \in 1 .. Len(concurrent.yielded) :
               a < b => C40_CompletedAt(concurrent.yielded[a].batch)
                          < C40_CompletedAt(concurrent.yielded[b].batch)
        /\ C40_ExitWaits

\* C40 amended: for batch_size >= 1 the batches partition the item list (a
\* negative batch_size gives no batch); each batch is submitted once and
\* yielded once, the batches that are complete when the iteration starts
\* first, in any order, and the others after them in completion order;
\* leaving the context waits for all submitted batches.
C40_BatchesYieldedEarlyFirst ==
    concurrent.pc \in {"entered", "iterating", "exited"} =>
        /\ concurrent.batch_size >= 1 => C40_Partition
        /\ concurrent.batch_size < 0 => concurrent.batches = << >>
        /\ C40_OneValuePerBatch
        /\ \A a \in 1 .. Len(concurrent.yielded), b \in 1 .. Len(concurrent.yielded) :
               a < b =>
                   \/ concurrent.yielded[a].batch \in concurrent.early
                   \/ /\ concurrent.yielded[b].batch \notin concurrent.early
                      /\ C40_CompletedAt(concurrent.yielded[a].batch)
                           < C40_CompletedAt(concurrent.yielded[b].batch)
        /\ C40_ExitWaits

C40_Witness ==
    /\ concurrent.pc = "exited"
    /\ concurrent.items = << 1, 2, 3 >>
    /\ concurrent.batches = << << 1, 2 >>, << 3 >> >>
    /\ concurrent.max_workers = 1
    /\ concurrent.completed = << 1, 2 >>
    /\ concurrent.early = {1}
    /\ Len(concurrent.yielded) = 2
    /\ concurrent.yielded[1] = [batch |-> 1, value |-> None]
    /\ concurrent.yielded[2] = [batch |-> 2, value |-> Some(<< "rows", << 3 >> >>)]

====
